---- MODULE Spec2Model ----
(***************************************************************************)
(* A model of the cursor-based card builder of adaptivecardbuilder.py:     *)
(* the AdaptiveCard object, the AdaptiveObject nodes added to it, the      *)
(* pointer that add / up_one_level / back_to_top / save_level / load_level *)
(* move, the serialization of to_json with its dictify helper, and the     *)
(* translation to_json runs first when it is given a language: the pairs   *)
(* it collects, the batched requests it awaits, the texts it writes back;  *)
(* and the sum of two cards (__add__, combine_adaptive_cards), which works *)
(* on deep copies of the cards it is given.                                *)
(*                                                                         *)
(* Objects are numbered: 0 is the AdaptiveCard the caller builds, 1..n are *)
(* the AdaptiveObject instances the caller has constructed so far, in the  *)
(* order of their construction.  An attribute that Python would not find   *)
(* on the object (getattr(..., 'no') == 'no') has the value NoAttr.        *)
(***************************************************************************)
EXTENDS Integers, Sequences, FiniteSets, TLC

\* ------------------------------------------------------------------ bounds
\* The number of AdaptiveObject instances the caller constructs.
MaxNodes == 2
\* The number of entries all containers of the card hold together.
MaxEntries == 3
\* The number of texts of one translation request (n=100 in
\* _chunk_into_batches; the model chunks its shorter lists by this size).
BatchSize == 2

\* ------------------------------------------------------------- the heap
Card == 0
NoAttr == -1

\* The classes of the catalog the model builds with: one for every
\* combination of _is_an_action / _get_item_container / _get_action_container
\* that the catalog has.
Kinds == {"Container", "TextBlock", "ActionSet", "Action.Submit",
          "Action.ShowCard", "Action.ToggleVisibility"}

\* AdaptiveObject._is_an_action and its overrides.
is_an_action(k) == k \in {"Action.Submit", "Action.ShowCard", "Action.ToggleVisibility"}

\* A catalog in which ColumnSet and Column override no container getter.
has_item_container_no_columns(k) ==
    k \in {"Container", "Action.ShowCard", "Action.ToggleVisibility"}

\* Which classes override _get_item_container (it returns a list).
has_item_container(k) ==
    k \in {"Container", "Column", "ColumnSet", "Action.ShowCard", "Action.ToggleVisibility"}

\* A catalog in which ActionShowCard overrides no _get_action_container.
has_action_container_no_show_card(k) == k \in {"ActionSet"}

\* Which classes override _get_action_container (it returns a list).
has_action_container(k) == k \in {"ActionSet", "Action.ShowCard"}

\* The defaults of AdaptiveCard.__init__ and of to_json.
DefaultSchema == "http://adaptivecards.io/schemas/adaptive-card.json"
DefaultVersion == "1.2"

Nodes(h) == 1..Len(h.kind)
Objects(h) == 0..Len(h.kind)

\* AdaptiveCard.__init__: an empty body and actions, the pointer on the card.
NewCard(schema, version) ==
    [ kind           |-> << >>,
      items          |-> (Card :> << >>),
      actions        |-> (Card :> << >>),
      previous       |-> << >>,
      pointer        |-> Card,
      preserve_level |-> NoAttr,
      nested_pointer |-> {},
      kwargs         |-> << >>,
      schema         |-> schema,
      version        |-> version ]

\* The constructors of the catalog, called with the keyword arguments kw
\* (<<name, value>> pairs in the caller's order): a new object of class k, its
\* containers empty, no _previous; an ActionShowCard builds its own
\* AdaptiveCard, whose _pointer is that nested card.
ConstructWith(h, k, kw) ==
    LET n == Len(h.kind) + 1 IN
    [h EXCEPT !.kind = Append(@, k),
              !.items = @ @@ (n :> << >>),
              !.actions = @ @@ (n :> << >>),
              !.previous = Append(@, NoAttr),
              !.nested_pointer = IF k = "Action.ShowCard" THEN @ \cup {n} ELSE @,
              !.kwargs = Append(@, kw)]

\* A constructor called without keyword arguments.
Construct(h, k) == ConstructWith(h, k, << >>)

\* The object n is in no container: add has raised for it, and nothing of the
\* card refers to it.
Unplaced(h, n) ==
    \A o \in 0..Len(h.kind) :
        /\ \A i \in 1..Len(h.items[o]) : h.items[o][i] # n
        /\ \A i \in 1..Len(h.actions[o]) : h.actions[o][i] # n

\* The caller lets go of the objects it constructed last when add raised for
\* them and it constructs another: the objects are garbage.
RECURSIVE Forget(_)
Forget(h) ==
    LET n == Len(h.kind) IN
    IF n > 0 /\ Unplaced(h, n)
    THEN Forget([h EXCEPT !.kind = SubSeq(@, 1, n - 1),
                          !.items = [o \in 0..(n - 1) |-> @[o]],
                          !.actions = [o \in 0..(n - 1) |-> @[o]],
                          !.previous = SubSeq(@, 1, n - 1),
                          !.nested_pointer = @ \ {n},
                          !.kwargs = SubSeq(@, 1, n - 1)])
    ELSE h

\* obj._get_item_container() is a list: the card's body, a node's container.
HasItems(h, o) == o = Card \/ has_item_container(h.kind[o])
\* obj._get_action_container() is a list.
HasActions(h, o) == o = Card \/ has_action_container(h.kind[o])

\* ------------------------------------------------------------ results
\* Every operation yields the heap it leaves, the exception it raised (or
\* "none") and the value it returned.
RetNone == [t |-> "None", v |-> NoAttr]
RetRef(o) == [t |-> "ref", v |-> o]
Ok(h, ret) == [h |-> h, err |-> "none", ret |-> ret]
Raise(h, e) == [h |-> h, err |-> e, ret |-> RetNone]

\* An _add_item that does not append an item the container already holds.
add_item_once(h, o, item) ==
    IF HasItems(h, o)
    THEN Ok(IF \E i \in 1..Len(h.items[o]) : h.items[o][i] = item
            THEN h
            ELSE [h EXCEPT !.items[o] = Append(@, item)], RetRef(item))
    ELSE Raise(h, "AssertionError")

\* AdaptiveObject._add_item / AdaptiveCard._add_item on the object o.
add_item(h, o, item) ==
    IF HasItems(h, o)
    THEN Ok([h EXCEPT !.items[o] = Append(@, item)], RetRef(item))
    ELSE Raise(h, "AssertionError")

\* An _add_action that, on the card, appends to the body.
add_action_to_body(h, o, action) ==
    IF o = Card THEN Ok([h EXCEPT !.items[o] = Append(@, action)], RetRef(action))
    ELSE IF HasActions(h, o)
    THEN Ok([h EXCEPT !.actions[o] = Append(@, action)], RetRef(action))
    ELSE Raise(h, "AssertionError")

\* AdaptiveObject._add_action / AdaptiveCard._add_action on the object o.
add_action(h, o, action) ==
    IF HasActions(h, o)
    THEN Ok([h EXCEPT !.actions[o] = Append(@, action)], RetRef(action))
    ELSE Raise(h, "AssertionError")

\* AdaptiveCard.save_level: the pointer itself; reading self._pointer raises
\* when the attribute has been deleted.
save_level(h) ==
    IF h.pointer = NoAttr THEN Raise(h, "AttributeError")
    ELSE Ok(h, RetRef(h.pointer))

\* A load_level that goes back to the top instead of to the given level.
load_level_to_top(h, level) == Ok([h EXCEPT !.pointer = Card], RetNone)

\* AdaptiveCard.load_level.
load_level(h, level) == Ok([h EXCEPT !.pointer = level], RetNone)

\* An up_one_level that follows the links all the way up to the card.
up_one_level_to_top(h) ==
    IF h.pointer = NoAttr THEN Raise(h, "AttributeError")
    ELSE Ok([h EXCEPT !.pointer = Card], RetNone)

\* An up_one_level that unlinks the node it leaves.
up_one_level_unlink(h) ==
    IF h.pointer = NoAttr THEN Raise(h, "AttributeError")
    ELSE IF h.pointer # Card /\ h.previous[h.pointer] # NoAttr
         THEN Ok([h EXCEPT !.pointer = h.previous[h.pointer],
                           !.previous[h.pointer] = NoAttr], RetNone)
         ELSE Ok(h, RetNone)

\* AdaptiveCard.up_one_level.
up_one_level(h) ==
    IF h.pointer = NoAttr THEN Raise(h, "AttributeError")
    ELSE IF h.pointer # Card /\ h.previous[h.pointer] # NoAttr
         THEN Ok([h EXCEPT !.pointer = h.previous[h.pointer]], RetNone)
         ELSE Ok(h, RetNone)

\* The object the _previous links lead to from o, in at most fuel steps.
RECURSIVE FollowLinks(_, _, _)
FollowLinks(h, o, fuel) ==
    IF o = Card \/ fuel = 0 THEN o
    ELSE IF h.previous[o] = NoAttr THEN o
    ELSE FollowLinks(h, h.previous[o], fuel - 1)

\* A back_to_top that goes up the _previous links as far as they lead.
back_to_top_by_links(h) ==
    IF h.pointer = NoAttr THEN Raise(h, "AttributeError")
    ELSE Ok([h EXCEPT !.pointer = FollowLinks(h, h.pointer, Len(h.kind))], RetNone)

\* AdaptiveCard.back_to_top.
back_to_top(h) == Ok([h EXCEPT !.pointer = Card], RetNone)

\* An add that routes by the containers the element has: into the action
\* container when the element has one of its own.
add_object_by_container(h, element) ==
    IF h.pointer = NoAttr THEN Raise(h, "AttributeError")
    ELSE
    LET k == h.kind[element]
        r == IF has_action_container(k) THEN add_action(h, h.pointer, element)
                                        ELSE add_item(h, h.pointer, element)
    IN IF r.err # "none" THEN r
       ELSE LET h1 == [r.h EXCEPT !.previous[element] = h.pointer]
                h2 == IF has_item_container(k) \/ has_action_container(k)
                      THEN [h1 EXCEPT !.pointer = element]
                      ELSE h1
            IN Ok(h2, RetNone)

\* An add that descends only into an element whose containers are empty.
add_object_if_empty(h, element) ==
    IF h.pointer = NoAttr THEN Raise(h, "AttributeError")
    ELSE
    LET k == h.kind[element]
        r == IF is_an_action(k) THEN add_action(h, h.pointer, element)
                                ELSE add_item(h, h.pointer, element)
    IN IF r.err # "none" THEN r
       ELSE LET h1 == [r.h EXCEPT !.previous[element] = h.pointer]
                h2 == IF (has_item_container(k) \/ has_action_container(k))
                         /\ h.items[element] = << >> /\ h.actions[element] = << >>
                      THEN [h1 EXCEPT !.pointer = element]
                      ELSE h1
            IN Ok(h2, RetNone)

\* An add that descends only into an element with an item container.
add_object_items_only(h, element) ==
    IF h.pointer = NoAttr THEN Raise(h, "AttributeError")
    ELSE
    LET k == h.kind[element]
        r == IF is_an_action(k) THEN add_action(h, h.pointer, element)
                                ELSE add_item(h, h.pointer, element)
    IN IF r.err # "none" THEN r
       ELSE LET h1 == [r.h EXCEPT !.previous[element] = h.pointer]
                h2 == IF has_item_container(k)
                      THEN [h1 EXCEPT !.pointer = element]
                      ELSE h1
            IN Ok(h2, RetNone)

\* An add that links the element to the pointer before it inserts it.
add_object_link_first(h, element) ==
    IF h.pointer = NoAttr THEN Raise(h, "AttributeError")
    ELSE
    LET k  == h.kind[element]
        h0 == [h EXCEPT !.previous[element] = h.pointer]
        r  == IF is_an_action(k) THEN add_action(h0, h.pointer, element)
                                 ELSE add_item(h0, h.pointer, element)
    IN IF r.err # "none" THEN r
       ELSE Ok(IF has_item_container(k) \/ has_action_container(k)
               THEN [r.h EXCEPT !.pointer = element]
               ELSE r.h, RetNone)

\* An add that moves the pointer to the element before it inserts it.
add_object_descend_first(h, element) ==
    IF h.pointer = NoAttr THEN Raise(h, "AttributeError")
    ELSE
    LET k  == h.kind[element]
        h0 == IF has_item_container(k) \/ has_action_container(k)
              THEN [h EXCEPT !.pointer = element]
              ELSE h
        r  == IF is_an_action(k) THEN add_action(h0, h.pointer, element)
                                 ELSE add_item(h0, h.pointer, element)
    IN IF r.err # "none" THEN r
       ELSE Ok([r.h EXCEPT !.previous[element] = h.pointer], RetNone)

\* An add that links every element to the card.
add_object_links_to_card(h, element) ==
    IF h.pointer = NoAttr THEN Raise(h, "AttributeError")
    ELSE
    LET k == h.kind[element]
        r == IF is_an_action(k) THEN add_action(h, h.pointer, element)
                                ELSE add_item(h, h.pointer, element)
    IN IF r.err # "none" THEN r
       ELSE LET h1 == [r.h EXCEPT !.previous[element] = Card]
                h2 == IF has_item_container(k) \/ has_action_container(k)
                      THEN [h1 EXCEPT !.pointer = element]
                      ELSE h1
            IN Ok(h2, RetNone)

\* The branch of add for one AdaptiveObject (the elif issubclass branch).
add_object(h, element) ==
    IF h.pointer = NoAttr THEN Raise(h, "AttributeError")
    ELSE
    LET k == h.kind[element]
        r == IF is_an_action(k) THEN add_action(h, h.pointer, element)
                                ELSE add_item(h, h.pointer, element)
    IN IF r.err # "none" THEN r
       ELSE LET h1 == [r.h EXCEPT !.previous[element] = h.pointer]
                h2 == IF has_item_container(k) \/ has_action_container(k)
                      THEN [h1 EXCEPT !.pointer = element]
                      ELSE h1
            IN Ok(h2, RetNone)

\* "c" in s for a codeword string, a sequence of characters.
Contains(s, c) == \E i \in 1..Len(s) : s[i] = c

\* A codeword branch that goes up one level for every "<" of the string.
RECURSIVE add_str_per_character(_, _)
add_str_per_character(h, s) ==
    IF s = << >> THEN Ok(h, RetNone)
    ELSE LET r == CASE Head(s) = "^" -> back_to_top(h)
                    [] Head(s) = "<" -> up_one_level(h)
                    [] OTHER -> Ok(h, RetNone)
         IN IF r.err # "none" THEN r ELSE add_str_per_character(r.h, Tail(s))

\* The branch of add for a codeword string.
add_str(h, s) ==
    LET r1 == IF Contains(s, "^") THEN back_to_top(h) ELSE Ok(h, RetNone)
    IN IF Contains(s, "<") THEN up_one_level(r1.h) ELSE r1

\* The elements add accepts.
Obj(n) == [t |-> "obj", v |-> n]
Str(s) == [t |-> "str", v |-> s]
List(l) == [t |-> "list", v |-> l]

RECURSIVE add_elements(_, _, _)
\* AdaptiveCard.add, after the preserve level is saved: the list, string
\* and object branches; a list recurses into its members in order and stops
\* at the first that raises.
add_branch(h, element) ==
    CASE element.t = "list" -> add_elements(h, element.v, 1)
      [] element.t = "str" -> add_str(h, element.v)
      [] OTHER -> add_object(h, element.v)

\* A list branch that takes back what its members did when one of them raises.
add_elements_atomic(h, l, i) ==
    IF i > Len(l) THEN Ok(h, RetNone)
    ELSE LET r == add_branch(h, l[i])
         IN IF r.err # "none" THEN r
            ELSE LET r2 == add_elements(r.h, l, i + 1)
                 IN IF r2.err # "none" THEN Raise(h, r2.err) ELSE r2

\* A list branch that adds every member at the level the one before was
\* added at.
add_elements_same_level(h, l, i) ==
    IF i > Len(l) THEN Ok(h, RetNone)
    ELSE LET r == add_branch(h, l[i])
         IN IF r.err # "none" THEN r
            ELSE add_elements([r.h EXCEPT !.pointer = h.pointer], l, i + 1)

add_elements(h, l, i) ==
    IF i > Len(l) THEN Ok(h, RetNone)
    ELSE LET r == add_branch(h, l[i])
         IN IF r.err # "none" THEN r ELSE add_elements(r.h, l, i + 1)

\* An add that returns the element it was given.
add_returns_element(h, element, preserve_level) ==
    LET s  == IF preserve_level THEN save_level(h) ELSE Ok(h, RetNone)
    IN IF s.err # "none" THEN s
       ELSE
       LET h0 == IF preserve_level THEN [h EXCEPT !.preserve_level = s.ret.v] ELSE h
           r  == add_branch(h0, element)
       IN IF r.err # "none" THEN r
          ELSE LET h1 == IF preserve_level
                         THEN load_level(r.h, r.h.preserve_level).h
                         ELSE r.h
               IN Ok(h1, IF element.t = "obj" THEN RetRef(element.v) ELSE RetNone)

\* An add that saves the level to preserve only after it has added.
add_saves_late(h, element, preserve_level) ==
    LET r == add_branch(h, element)
    IN IF r.err # "none" THEN r
       ELSE LET s == IF preserve_level THEN save_level(r.h) ELSE Ok(r.h, RetNone)
            IN IF s.err # "none" THEN s
               ELSE Ok(IF preserve_level
                       THEN load_level([r.h EXCEPT !.preserve_level = s.ret.v], s.ret.v).h
                       ELSE r.h, RetRef(Card))

\* AdaptiveCard.add: it returns the card itself.
add(h, element, preserve_level) ==
    LET s  == IF preserve_level THEN save_level(h) ELSE Ok(h, RetNone)
    IN IF s.err # "none" THEN s
       ELSE
       LET h0 == IF preserve_level THEN [h EXCEPT !.preserve_level = s.ret.v] ELSE h
           r  == add_branch(h0, element)
       IN IF r.err # "none" THEN r
          ELSE LET h1 == IF preserve_level
                         THEN load_level(r.h, r.h.preserve_level).h
                         ELSE r.h
               IN Ok(h1, RetRef(Card))

\* ------------------------------------------------------- serialization
\* The objects json.dumps meets: the card (RootRef), an AdaptiveObject
\* (NodeRef(n)) and the AdaptiveCard an ActionShowCard holds (NestedRef(n)).
RootRef == [o |-> Card, nested |-> FALSE]
NodeRef(n) == [o |-> n, nested |-> FALSE]
NestedRef(n) == [o |-> n, nested |-> TRUE]

\* The attributes __init__ sets, in the order it sets them.
InitKeys(k) ==
    CASE k = "AdaptiveCard" -> <<"schema", "version", "type", "body", "actions">>
      [] k = "Container" -> <<"type", "items">>
      [] k = "Column" -> <<"type", "items">>
      [] k = "ColumnSet" -> <<"type", "columns">>
      [] k = "Input.Text" -> <<"type", "id">>
      [] k = "ActionSet" -> <<"type", "actions">>
      [] k = "Action.ShowCard" -> <<"type", "card">>
      [] k = "Action.ToggleVisibility" -> <<"type", "targetElements">>
      [] k = "TextBlock" -> <<"type", "text">>
      [] k = "TargetElement" -> <<"elementId">>
      [] OTHER -> <<"type">>

\* The construction attributes the object carries now, those dictify looks for.
InternalKeys(h, ref) ==
    IF ref.nested
    THEN IF ref.o \in h.nested_pointer THEN <<"_pointer">> ELSE << >>
    ELSE IF ref.o = Card
    THEN (IF h.pointer # NoAttr THEN <<"_pointer">> ELSE << >>)
         \o (IF h.preserve_level # NoAttr THEN <<"_preserve_level">> ELSE << >>)
    ELSE IF h.previous[ref.o] # NoAttr THEN <<"_previous">> ELSE << >>

KindOf(h, ref) == IF ref.nested \/ ref.o = Card THEN "AdaptiveCard" ELSE h.kind[ref.o]

\* The keyword arguments the object still carries (__dict__.update(kwargs)),
\* the arguments that bind to a parameter of __init__ (text, ID) among them.
Kwargs(h, ref) == IF ref.nested \/ ref.o = Card THEN << >> ELSE h.kwargs[ref.o]

\* The names of the keyword arguments that __dict__.update appends to the
\* __dict__, in the caller's order: an argument that names an attribute
\* __init__ has set keeps that attribute's place.
KwargKeys(h, ref) ==
    LET own == {InitKeys(KindOf(h, ref))[i] : i \in DOMAIN InitKeys(KindOf(h, ref))}
        new == SelectSeq(Kwargs(h, ref), LAMBDA a : a[1] \notin own)
    IN [i \in DOMAIN new |-> new[i][1]]

\* A __dict__ in which the keyword arguments come right after the type, before
\* the containers.
DictKeysKwargsFirst(h, ref) ==
    <<Head(InitKeys(KindOf(h, ref)))>> \o KwargKeys(h, ref)
       \o Tail(InitKeys(KindOf(h, ref))) \o InternalKeys(h, ref)

\* The keys of the object's __dict__, in the order they were set: by
\* __init__, from the keyword arguments, by add.
DictKeys(h, ref) == InitKeys(KindOf(h, ref)) \o KwargKeys(h, ref) \o InternalKeys(h, ref)

\* if has_dont_translate: del item.dont_translate, where has_dont_translate
\* is getattr(item, 'dont_translate', 'no') != 'no'.
WithoutMarker(kw) ==
    SelectSeq(kw, LAMBDA a : ~(a[1] = "dont_translate" /\ a[2] # "no"))

\* A dictify that leaves the _previous links in place.
DeleteInternalButPrevious(h, ref) ==
    IF ref.nested THEN [h EXCEPT !.nested_pointer = @ \ {ref.o}]
    ELSE IF ref.o = Card THEN [h EXCEPT !.pointer = NoAttr, !.preserve_level = NoAttr]
    ELSE [h EXCEPT !.kwargs[ref.o] = WithoutMarker(@)]

\* A dictify that leaves the dont_translate marker in place.
DeleteInternalButMarker(h, ref) ==
    IF ref.nested THEN [h EXCEPT !.nested_pointer = @ \ {ref.o}]
    ELSE IF ref.o = Card THEN [h EXCEPT !.pointer = NoAttr, !.preserve_level = NoAttr]
    ELSE [h EXCEPT !.previous[ref.o] = NoAttr]

\* del item._pointer, del item._previous, del item._preserve_level,
\* del item.dont_translate.
DeleteInternal(h, ref) ==
    IF ref.nested THEN [h EXCEPT !.nested_pointer = @ \ {ref.o}]
    ELSE IF ref.o = Card THEN [h EXCEPT !.pointer = NoAttr, !.preserve_level = NoAttr]
    ELSE [h EXCEPT !.previous[ref.o] = NoAttr, !.kwargs[ref.o] = WithoutMarker(@)]

\* A variant of dictify that takes the __dict__ before it deletes.
dictify_snapshot(h, ref) == [h |-> DeleteInternal(h, ref), keys |-> DictKeys(h, ref)]

\* to_json's helper dictify: it deletes the construction attributes from the
\* object and returns the object's __dict__.
dictify(h, ref) ==
    LET h1 == DeleteInternal(h, ref) IN [h |-> h1, keys |-> DictKeys(h1, ref)]

\* One field of a serialized object: a string, a list of objects or an object.
Field(key, tag, str, sub) == [key |-> key, tag |-> tag, str |-> str, sub |-> sub]

IsListKey(key) == key \in {"body", "items", "columns", "targetElements", "actions"}

\* The list the attribute holds.
ListOf(h, ref, key) == IF key = "actions" THEN h.actions[ref.o] ELSE h.items[ref.o]

\* The value of a string attribute (a reference, if dictify left one in).
ScalarOf(h, ref, key) ==
    CASE key = "type" -> KindOf(h, ref)
      [] key = "schema" -> IF ref.nested THEN DefaultSchema ELSE h.schema
      [] key = "version" -> IF ref.nested THEN DefaultVersion ELSE h.version
      [] key \in {"_pointer", "_previous", "_preserve_level"} -> "<object>"
      [] \E i \in DOMAIN Kwargs(h, ref) : Kwargs(h, ref)[i][1] = key ->
            Kwargs(h, ref)[CHOOSE i \in DOMAIN Kwargs(h, ref) : Kwargs(h, ref)[i][1] = key][2]
      [] OTHER -> "<value>"

Encoded(h, err, out) == [h |-> h, err |-> err, out |-> out]

\* The keys of a __dict__ whose values are not strings: lists and objects.
ChildKeys(keys) == SelectSeq(keys, LAMBDA key : IsListKey(key) \/ key = "card")

RECURSIVE encode_obj(_, _, _)
RECURSIVE encode_list(_, _, _, _, _)

\* The value of a list or object attribute, encoded.
encode_value(h, ref, key, markers) ==
    IF key = "card"
    THEN LET r == encode_obj(h, NestedRef(ref.o), markers)
         IN Encoded(r.h, r.err, <<r.out>>)
    ELSE encode_list(h, ListOf(h, ref, key), 1, markers, << >>)

\* The __dict__ dictify returned, key by key in its order: the strings as they
\* are, the lists and objects encoded one after the other, the first that
\* raises ending the walk.
encode_dict(h, ref, keys, markers) ==
    LET ck == ChildKeys(keys)
        r1 == IF Len(ck) >= 1 THEN encode_value(h, ref, ck[1], markers)
                              ELSE Encoded(h, "none", << >>)
        r2 == IF Len(ck) >= 2 /\ r1.err = "none"
              THEN encode_value(r1.h, ref, ck[2], markers)
              ELSE r1
    IN IF r2.err # "none" THEN r2
       ELSE Encoded(r2.h, "none",
               [i \in 1..Len(keys) |->
                  IF Len(ck) >= 1 /\ keys[i] = ck[1]
                  THEN Field(keys[i], IF keys[i] = "card" THEN "obj" ELSE "list", "", r1.out)
                  ELSE IF Len(ck) >= 2 /\ keys[i] = ck[2]
                  THEN Field(keys[i], IF keys[i] = "card" THEN "obj" ELSE "list", "", r2.out)
                  ELSE Field(keys[i], "str", ScalarOf(h, ref, keys[i]), << >>)])

\* json.dumps(..., default=dictify) on an object that is no JSON type: the
\* circular-reference check on the object, then dictify, then its __dict__.
encode_obj(h, ref, markers) ==
    IF ref \in markers THEN Encoded(h, "ValueError", << >>)
    ELSE LET d == dictify(h, ref)
         IN encode_dict(d.h, ref, d.keys, markers \cup {ref})

\* An encoder that puts each element of a list in front of those before it.
encode_list_prepend(h, l, i, markers, acc) ==
    IF i > Len(l) THEN Encoded(h, "none", acc)
    ELSE LET r == encode_obj(h, NodeRef(l[i]), markers)
         IN IF r.err # "none" THEN r
            ELSE encode_list(r.h, l, i + 1, markers, <<r.out>> \o acc)

\* A list, element by element in its order.
encode_list(h, l, i, markers, acc) ==
    IF i > Len(l) THEN Encoded(h, "none", acc)
    ELSE LET r == encode_obj(h, NodeRef(l[i]), markers)
         IN IF r.err # "none" THEN r
            ELSE encode_list(r.h, l, i + 1, markers, Append(acc, r.out))

RetJson(out) == [t |-> "json", v |-> out]

\* A to_json that serializes the version and schema the card was built with.
to_json_as_constructed(h, version, schema) ==
    LET r == encode_obj(h, RootRef, {})
    IN IF r.err # "none" THEN Raise(r.h, r.err) ELSE Ok(r.h, RetJson(r.out))

\* AdaptiveCard.to_json without a translator_to_lang.
to_json(h, version, schema) ==
    LET h1 == [h EXCEPT !.schema = schema, !.version = version]
        r  == encode_obj(h1, RootRef, {})
    IN IF r.err # "none" THEN Raise(r.h, r.err) ELSE Ok(r.h, RetJson(r.out))

\* ------------------------------------------------------------ translation
\* _translatable_attributes of the classes of the catalog.
translatable_attributes(k) ==
    CASE k = "TextBlock" -> <<"text">>
      [] k \in {"Action.Submit", "Action.ShowCard", "Action.ToggleVisibility"} -> <<"title">>
      [] k = "Input.Text" -> <<"title", "placeholder", "value">>
      [] OTHER -> << >>

\* hasattr(obj, attribute): __init__ has set it, or a keyword argument has.
hasattr(h, n, attribute) ==
    \/ \E i \in DOMAIN InitKeys(h.kind[n]) : InitKeys(h.kind[n])[i] = attribute
    \/ \E i \in DOMAIN h.kwargs[n] : h.kwargs[n][i][1] = attribute

\* getattr(obj, attribute) for an attribute the object has.
getattr(h, n, attribute) == ScalarOf(h, NodeRef(n), attribute)

\* setattr(obj, attribute, value): the attribute keeps its place in __dict__.
setattr(h, n, attribute, value) ==
    IF \E i \in DOMAIN h.kwargs[n] : h.kwargs[n][i][1] = attribute
    THEN [h EXCEPT !.kwargs[n] =
            [i \in DOMAIN @ |-> IF @[i][1] = attribute THEN <<attribute, value>> ELSE @[i]]]
    ELSE [h EXCEPT !.kwargs[n] = Append(@, <<attribute, value>>)]

\* getattr(thisItem, 'dont_translate', 'no') != 'no'
has_dont_translate(h, n) ==
    \E i \in DOMAIN h.kwargs[n] :
        h.kwargs[n][i][1] = "dont_translate" /\ h.kwargs[n][i][2] # "no"

\* The (object, attribute) pairs recursive_find appends for thisItem itself.
own_pairs(h, n) ==
    IF has_dont_translate(h, n) THEN << >>
    ELSE LET present == SelectSeq(translatable_attributes(h.kind[n]),
                                  LAMBDA a : hasattr(h, n, a))
         IN [i \in DOMAIN present |-> <<n, present[i]>>]

RECURSIVE recursive_find(_, _)
RECURSIVE find_each(_, _, _)

\* A recursive_find that appends the pairs of an object after those of the
\* objects in its containers.
recursive_find_children_first(h, n) ==
    (IF HasItems(h, n) THEN find_each(h, h.items[n], 1) ELSE << >>)
       \o (IF HasActions(h, n) THEN find_each(h, h.actions[n], 1) ELSE << >>)
       \o own_pairs(h, n)

\* recursive_find of _prepare_elements_for_translation: the pairs of thisItem,
\* then those of its item container, then those of its action container.
recursive_find(h, n) ==
    own_pairs(h, n)
       \o (IF HasItems(h, n) THEN find_each(h, h.items[n], 1) ELSE << >>)
       \o (IF HasActions(h, n) THEN find_each(h, h.actions[n], 1) ELSE << >>)

\* for item in container: recursive_find(item)
find_each(h, l, i) ==
    IF i > Len(l) THEN << >> ELSE recursive_find(h, l[i]) \o find_each(h, l, i + 1)

\* A collection of the pairs that leaves the cursor where it is.
prepare_elements_cursor_kept(h) ==
    [h |-> h,
     pairs |-> find_each(h, h.items[Card], 1) \o find_each(h, h.actions[Card], 1)]

\* AdaptiveCard._prepare_elements_for_translation: back to the top, then the
\* body, then the actions.
prepare_elements_for_translation(h) ==
    [h |-> back_to_top(h).h,
     pairs |-> find_each(h, h.items[Card], 1) \o find_each(h, h.actions[Card], 1)]

\* A chunking that fills the batches from the end of the list.
chunk_from_the_end(a_list, n) ==
    LET len == Len(a_list)
        first == IF len % n = 0 THEN n ELSE len % n
    IN [k \in 1..((len + n - 1) \div n) |->
          IF k = 1 THEN SubSeq(a_list, 1, first)
          ELSE SubSeq(a_list, first + (k - 2) * n + 1, first + (k - 1) * n)]

\* AdaptiveCard._chunk_into_batches: [a_list[i:i+n] for i in range(0, len, n)].
chunk_into_batches(a_list, n) ==
    LET len == Len(a_list)
    IN [k \in 1..((len + n - 1) \div n) |->
          SubSeq(a_list, (k - 1) * n + 1, IF k * n < len THEN k * n ELSE len)]

\* supported_languages of _translate_elements.
supported_languages ==
    {"af", "ar", "bn", "bs", "bg", "yue", "ca", "zh-Hans", "zh-Hant", "hr", "cs",
     "da", "nl", "en", "et", "fj", "fil", "fi", "fr", "de", "el", "gu", "ht", "he",
     "hi", "mww", "hu", "is", "id", "ga", "it", "ja", "kn", "kk", "sw", "tlh-Latn",
     "tlh-Piqd", "ko", "lv", "lt", "mg", "ms", "ml", "mt", "mi", "mr", "nb", "fa",
     "pl", "pt-br", "pt-pt", "pa", "otq", "ro", "ru", "sm", "sr-Cyrl", "sr-Latn",
     "sk", "sl", "es", "sv", "ty", "ta", "te", "th", "to", "tr", "uk", "ur", "vi",
     "cy", "yua"}

\* The text the translation service returns for a text.
Translated(to_lang, text) == to_lang \o ":" \o text

\* What a request coroutine ends with: the response's JSON, one translation
\* per text of the body in the body's order, or an exception.
Response(to_lang, a_body) ==
    [raised |-> FALSE, json |-> [j \in DOMAIN a_body |-> Translated(to_lang, a_body[j])]]
Exception == [raised |-> TRUE, json |-> << >>]

\* The request has completed (with a response or an exception).
Completed(done, k) == \E i \in DOMAIN done : done[i].request = k

\* A wait that ends as soon as one request has completed.
gathered_first_completed(tr) == tr.bodies = << >> \/ tr.done # << >>

\* await asyncio.gather(*requests, return_exceptions=True) has returned:
\* every request has completed.
gathered(tr) == \A k \in DOMAIN tr.bodies : Completed(tr.done, k)

\* A gather that returns the results in the order the requests completed.
gather_as_completed(n, done) ==
    [k \in 1..n |-> IF k <= Len(done) THEN done[k].result ELSE Exception]

\* The list asyncio.gather returns: the result of each request, in the order
\* of the requests (a request without a result counts as failed).
gather(n, done) ==
    [k \in 1..n |->
        IF Completed(done, k)
        THEN done[CHOOSE i \in DOMAIN done : done[i].request = k].result
        ELSE Exception]

\* for response_dict in batch: setattr(adaptive_object, attribute,
\* translated_text); i += 1 -- for the j-th response of a batch and after it.
RECURSIVE unpack_batch(_, _, _, _, _)
\* An unpacking that counts the pairs from the start of each batch.
unpack_batch_from_zero(h, pairs, batch, i, j) ==
    IF j > Len(batch) THEN Ok(h, RetNone)
    ELSE unpack_batch(setattr(h, pairs[j][1], pairs[j][2], batch[j]),
                      pairs, batch, i, j + 1)

unpack_batch(h, pairs, batch, i, j) ==
    IF j > Len(batch) THEN Ok(h, RetNone)
    ELSE IF i + j > Len(pairs) THEN Raise(h, "IndexError")
    ELSE unpack_batch(setattr(h, pairs[i + j][1], pairs[i + j][2], batch[j]),
                      pairs, batch, i, j + 1)

RECURSIVE unpack(_, _, _, _, _)
\* An unpacking that writes nothing when any of the requests raised.
unpack_all_or_nothing(h, pairs, response_batches, b, i) ==
    IF \E k \in DOMAIN response_batches : response_batches[k].raised
    THEN Raise(h, "TypeError")
    ELSE IF b > Len(response_batches) THEN Ok(h, RetNone)
    ELSE LET r == unpack_batch(h, pairs, response_batches[b].json, i, 1)
         IN IF r.err # "none" THEN r
            ELSE unpack(r.h, pairs, response_batches, b + 1,
                        i + Len(response_batches[b].json))

\* The unpacking loop of _translate_elements from batch b on, i pairs done:
\* iterating over an exception raises TypeError.
unpack(h, pairs, response_batches, b, i) ==
    IF b > Len(response_batches) THEN Ok(h, RetNone)
    ELSE IF response_batches[b].raised THEN Raise(h, "TypeError")
    ELSE LET r == unpack_batch(h, pairs, response_batches[b].json, i, 1)
         IN IF r.err # "none" THEN r
            ELSE unpack(r.h, pairs, response_batches, b + 1,
                        i + Len(response_batches[b].json))

\* What to_json with a translator_to_lang has done when it comes to wait for
\* its requests: the assertions, the collected pairs, the request bodies.
Awaiting(h, args, pairs, bodies) ==
    [h |-> h, err |-> "none", ret |-> RetNone,
     tr |-> [pc |-> "awaiting", args |-> args, pairs |-> pairs, bodies |-> bodies,
             done |-> << >>]]

\* A to_json that does not look at the language code.
to_json_translate_unchecked(h, args) ==
    LET h1 == [h EXCEPT !.schema = args[2], !.version = args[1]]
    IN IF args[4] = ""
       THEN [Awaiting(h1, args, << >>, << >>) EXCEPT !.err = "AssertionError"]
       ELSE LET p == prepare_elements_for_translation(h1)
                texts == [i \in DOMAIN p.pairs |->
                            getattr(p.h, p.pairs[i][1], p.pairs[i][2])]
            IN Awaiting(p.h, args, p.pairs, chunk_into_batches(texts, BatchSize))

\* to_json(version, schema, translator_to_lang, translator_key) up to the
\* await of asyncio.gather: the two assertions, the pairs, the request bodies
\* of at most BatchSize texts each, one request per body.
to_json_translate(h, args) ==
    LET h1 == [h EXCEPT !.schema = args[2], !.version = args[1]]
    IN IF args[4] = "" \/ args[3] \notin supported_languages
       THEN [Awaiting(h1, args, << >>, << >>) EXCEPT !.err = "AssertionError"]
       ELSE LET p == prepare_elements_for_translation(h1)
                texts == [i \in DOMAIN p.pairs |->
                            getattr(p.h, p.pairs[i][1], p.pairs[i][2])]
            IN Awaiting(p.h, args, p.pairs, chunk_into_batches(texts, BatchSize))

\* to_json from the return of asyncio.gather on: the translations are
\* unpacked and written, and the card is serialized.
to_json_translated(h, tr) ==
    LET u == unpack(h, tr.pairs, gather(Len(tr.bodies), tr.done), 1, 0)
    IN IF u.err # "none" THEN u ELSE to_json(u.h, tr.args[1], tr.args[2])

\* ------------------------------------------------------------- the state
VARIABLES
    card,        \* the AdaptiveCard and every object constructed for it
    checkpoint,  \* the level the caller holds from save_level, or NoAttr
    last,        \* the caller's last call: its name, arguments, exception
                 \* and return value
    script,      \* the calls of the column-set example the caller has come
                 \* to: for each, whether it made the call
    translation, \* the to_json the caller awaits while it translates: the
                 \* pairs it collected, the request bodies, the completions
    cards        \* the other AdaptiveCard objects there are: the cards the
                 \* caller has built and put aside to combine them, and the
                 \* cards combining them has made

vars == <<card, checkpoint, last, script, translation, cards>>

Call(op, arg, r) == [op |-> op, arg |-> arg, err |-> r.err, ret |-> r.ret]

\* The number of entries the containers of objects 0..n hold together.
RECURSIVE Entries(_, _)
Entries(h, n) ==
    IF n < 0 THEN 0
    ELSE Len(h.items[n]) + Len(h.actions[n]) + Entries(h, n - 1)

\* The caller goes on adding while the card holds fewer than MaxEntries.
Room(h) == Entries(h, Len(h.kind)) < MaxEntries

\* No to_json is awaiting its translation requests.
NoTranslation ==
    [pc |-> "idle", args |-> << >>, pairs |-> << >>, bodies |-> << >>, done |-> << >>]

Init ==
    /\ card = NewCard(DefaultSchema, DefaultVersion)
    /\ checkpoint = NoAttr
    /\ last = [op |-> "init", arg |-> << >>, err |-> "none", ret |-> RetNone]
    /\ script = << >>
    /\ translation = NoTranslation
    /\ cards = << >>

\* card.add(K(...), preserve_level=pl): the caller constructs an object of
\* class K and adds it.
AddNew(pl) ==
    /\ Len(Forget(card).kind) < MaxNodes
    /\ Room(card)
    /\ \E k \in Kinds :
          LET h == Construct(Forget(card), k)
              e == Len(h.kind)
          IN \E r \in {add(h, Obj(e), pl)} :
                /\ card' = r.h
                /\ last' = Call("add", <<Obj(e), pl>>, r)
    /\ UNCHANGED <<checkpoint, script, translation, cards>>

\* card.add(e, preserve_level=pl) for an object the caller constructed earlier.
AddAgain(pl) ==
    /\ Room(card)
    /\ \E e \in Nodes(card) :
          \E r \in {add(card, Obj(e), pl)} :
             /\ card' = r.h
             /\ last' = Call("add", <<Obj(e), pl>>, r)
    /\ UNCHANGED <<checkpoint, script, translation, cards>>

Codewords == { <<"^">>, <<"<">>, <<"<", "<">>, <<"^", "<">>, <<"x">> }

\* card.add("<codeword>", preserve_level=pl).
AddCodeword(pl) ==
    /\ \E s \in Codewords :
          \E r \in {add(card, Str(s), pl)} :
             /\ card' = r.h
             /\ last' = Call("add", <<Str(s), pl>>, r)
    /\ UNCHANGED <<checkpoint, script, translation, cards>>

UpOneLevel ==
    /\ \E r \in {up_one_level(card)} :
          /\ card' = r.h
          /\ last' = Call("up_one_level", << >>, r)
    /\ UNCHANGED <<checkpoint, script, translation, cards>>

BackToTop ==
    /\ \E r \in {back_to_top(card)} :
          /\ card' = r.h
          /\ last' = Call("back_to_top", << >>, r)
    /\ UNCHANGED <<checkpoint, script, translation, cards>>

\* checkpoint = card.save_level()
SaveLevel ==
    /\ \E r \in {save_level(card)} :
          /\ card' = r.h
          /\ last' = Call("save_level", << >>, r)
          /\ checkpoint' = IF r.err = "none" THEN r.ret.v ELSE checkpoint
    /\ UNCHANGED <<script, translation, cards>>

\* card.load_level(checkpoint)
LoadLevel ==
    /\ checkpoint # NoAttr
    /\ \E r \in {load_level(card, checkpoint)} :
          /\ card' = r.h
          /\ last' = Call("load_level", <<checkpoint>>, r)
    /\ UNCHANGED <<checkpoint, script, translation, cards>>

\* The (version, schema) arguments the caller serializes with: the defaults.
ToJsonArgs == { <<DefaultVersion, DefaultSchema>> }

\* await card.to_json(version=..., schema=...)
ToJson ==
    \E a \in ToJsonArgs :
        /\ \E r \in {to_json(card, a[1], a[2])} :
              /\ card' = r.h
              /\ last' = Call("to_json", a, r)
        /\ UNCHANGED <<checkpoint, script, translation, cards>>

\* The builder with plain adds (preserve_level left at its default False):
\* adding, navigating, saving and loading levels, serializing.
Next ==
    \/ AddNew(FALSE)
    \/ AddAgain(FALSE)
    \/ UpOneLevel
    \/ BackToTop
    \/ SaveLevel
    \/ LoadLevel
    \/ ToJson

Spec == Init /\ [][Next]_vars

\* The lists the caller makes of two objects a and b it has just constructed:
\* the two in a row, the second in a list of its own, a codeword between them.
ListsOf(a, b) ==
    { List(<<Obj(a), Obj(b)>>),
      List(<<Obj(a), List(<<Obj(b)>>)>>),
      List(<<Obj(a), Str(<<"<">>), Obj(b)>>) }

\* card.add([K1(...), K2(...)], preserve_level=pl): the caller constructs two
\* objects and adds them in one list.
AddNewList(pl) ==
    /\ Len(Forget(card).kind) + 2 <= MaxNodes
    /\ Entries(card, Len(card.kind)) + 2 <= MaxEntries
    /\ \E k1, k2 \in Kinds :
          LET h == Construct(Construct(Forget(card), k1), k2)
              b == Len(h.kind)
          IN \E l \in ListsOf(b - 1, b) :
                \E r \in {add(h, l, pl)} :
                   /\ card' = r.h
                   /\ last' = Call("add", <<l, pl>>, r)
    /\ UNCHANGED <<checkpoint, script, translation, cards>>

\* The builder with every form of add: level-preserving adds, codeword
\* strings and lists as well.
NextAdds ==
    \/ \E pl \in BOOLEAN : AddNew(pl)
    \/ \E pl \in BOOLEAN : AddCodeword(pl)
    \/ \E pl \in BOOLEAN : AddNewList(pl)
    \/ UpOneLevel
    \/ BackToTop

SpecAdds == Init /\ [][NextAdds]_vars

\* The classes the caller builds with when it passes keyword arguments: one
\* with a container, one with a positional attribute, one with a nested card,
\* and TargetElement, which sets no type.
KwKinds == {"Container", "TextBlock", "Action.ShowCard", "TargetElement"}

\* The keyword arguments the caller passes to a constructor.
KwargsChoices ==
    { << >>,
      << <<"id", "i">> >>,
      << <<"style", "s">>, <<"id", "i">> >>,
      << <<"dont_translate", "True">>, <<"id", "i">> >>,
      << <<"dont_translate", "no">> >> }

\* card.add(K(..., **kw), preserve_level=pl): the caller constructs an object
\* of class K with keyword arguments and adds it.
AddNewWith(pl) ==
    /\ Len(Forget(card).kind) < MaxNodes
    /\ Room(card)
    /\ \E k \in KwKinds, kw \in KwargsChoices :
          LET h == ConstructWith(Forget(card), k, kw)
              e == Len(h.kind)
          IN \E r \in {add(h, Obj(e), pl)} :
                /\ card' = r.h
                /\ last' = Call("add", <<Obj(e), pl>>, r)
    /\ UNCHANGED <<checkpoint, script, translation, cards>>

\* The builder with keyword attributes: adding, navigating, serializing.
NextKwargs ==
    \/ \E pl \in BOOLEAN : AddNewWith(pl)
    \/ UpOneLevel
    \/ BackToTop
    \/ ToJson

SpecKwargs == Init /\ [][NextKwargs]_vars

\* The caller is building: it awaits no to_json and has not serialized yet.
Building == translation.pc = "idle" /\ last.op # "to_json"

\* The number of objects the caller constructs for a card it translates: one
\* more than MaxNodes, for an object with an item and an action below it.
MaxTextNodes == MaxNodes + 1

\* The classes the caller builds a card to translate with: one without
\* translatable attributes, one with a positional one, one with three, and an
\* action with a nested card.
TextKinds == {"Container", "TextBlock", "Input.Text", "Action.ShowCard"}

\* The arguments the caller constructs its e-th object with, of class k: texts
\* that tell the objects apart, an empty text, attributes left out, keyword
\* arguments in another order than _translatable_attributes lists them, a
\* dont_translate marker.
TextChoices(k, e) ==
    LET t == ToString(e) IN
    CASE k = "TextBlock" ->
            { << <<"text", "x" \o t>> >>,
              << <<"text", "">> >>,
              << <<"text", "x" \o t>>, <<"dont_translate", "True">> >>,
              << <<"text", "x" \o t>>, <<"dont_translate", "no">> >> }
      [] k = "Input.Text" ->
            { << <<"value", "v" \o t>>, <<"title", "t" \o t>> >>,
              << <<"title", "t" \o t>>, <<"placeholder", "p" \o t>>, <<"value", "v" \o t>> >> }
      [] k = "Action.ShowCard" ->
            { << >>,
              << <<"title", "s" \o t>> >>,
              << <<"title", "s" \o t>>, <<"dont_translate", "False">> >> }
      [] OTHER -> { << >> }

\* card.add(K(text...)): the caller constructs an object with texts and adds it.
AddText ==
    /\ Building
    /\ Len(Forget(card).kind) < MaxTextNodes
    /\ Room(card)
    /\ \E k \in TextKinds :
          \E kw \in TextChoices(k, Len(Forget(card).kind) + 1) :
             LET h == ConstructWith(Forget(card), k, kw)
                 e == Len(h.kind)
             IN \E r \in {add(h, Obj(e), FALSE)} :
                   /\ card' = r.h
                   /\ last' = Call("add", <<Obj(e), FALSE>>, r)
    /\ UNCHANGED <<checkpoint, script, translation, cards>>

\* The (version, schema, translator_to_lang, translator_key) the caller
\* serializes with: a supported language, an unsupported one, no key.
TranslateArgs ==
    { <<DefaultVersion, DefaultSchema, "fr", "key">>,
      <<DefaultVersion, DefaultSchema, "xx", "key">>,
      <<DefaultVersion, DefaultSchema, "fr", "">> }

\* await card.to_json(translator_to_lang=..., translator_key=...): the call
\* runs up to its await of the requests, or raises.
ToJsonTranslate ==
    /\ Building
    /\ \E a \in TranslateArgs :
          \E r \in {to_json_translate(card, a)} :
             /\ card' = r.h
             /\ IF r.err = "none"
                THEN translation' = r.tr /\ UNCHANGED last
                ELSE /\ translation' = [r.tr EXCEPT !.pc = "returned"]
                     /\ last' = Call("to_json", a, r)
    /\ UNCHANGED <<checkpoint, script, cards>>

\* One of the outstanding requests completes: the service responds, or the
\* request raises.
RequestCompletes ==
    /\ translation.pc = "awaiting"
    /\ \E k \in DOMAIN translation.bodies :
          /\ ~Completed(translation.done, k)
          /\ \E result \in {Response(translation.args[3], translation.bodies[k]), Exception} :
                translation' = [translation EXCEPT
                                  !.done = Append(@, [request |-> k, result |-> result])]
    /\ UNCHANGED <<card, checkpoint, last, script, cards>>

\* asyncio.gather returns and to_json goes on to its end.
ToJsonReturns ==
    /\ translation.pc = "awaiting"
    /\ gathered(translation)
    /\ \E r \in {to_json_translated(card, translation)} :
          /\ card' = r.h
          /\ last' = Call("to_json", translation.args, r)
    /\ translation' = [translation EXCEPT !.pc = "returned"]
    /\ UNCHANGED <<checkpoint, script, cards>>

\* The caller builds a card with texts and serializes it with a translation.
NextTranslate ==
    \/ AddText
    \/ (Building /\ UpOneLevel)
    \/ (Building /\ BackToTop)
    \/ ToJsonTranslate
    \/ RequestCompletes
    \/ ToJsonReturns

SpecTranslate == Init /\ [][NextTranslate]_vars

\* --------------------------------------------------------- properties
\* The call is add(e) of one AdaptiveObject with preserve_level left False.
PlainAdd(l) == l.op = "add" /\ l.arg[1].t = "obj" /\ l.arg[2] = FALSE
Added(l) == l.arg[1].v
Succeeded(l) == l.err = "none"

\* The class can hold children: one of its container getters returns a list.
Capable(k) == has_item_container(k) \/ has_action_container(k)

\* The object o has the container an element of class k is added to.
Accepts(h, o, k) == IF is_an_action(k) THEN HasActions(h, o) ELSE HasItems(h, o)

Range(f) == {f[i] : i \in DOMAIN f}

\* The objects that hold e in one of their containers.
Holders(h, e) == {o \in Objects(h) : e \in Range(h.items[o]) \cup Range(h.actions[o])}

\* The nodes below the card: those in a container of the card or of a node
\* below the card.
RECURSIVE Below(_, _)
Below(h, seen) ==
    LET more == {e \in Nodes(h) : \E o \in seen : o \in Holders(h, e)} \ seen
    IN IF more = {} THEN seen \ {Card} ELSE Below(h, seen \cup more)
Descendants(h) == Below(h, {Card})

\* The step appends e to the container of o that e's class is routed to,
\* and changes no other container of an object that existed before.
AppendsTo(o, e) ==
    /\ IF is_an_action(card'.kind[e])
       THEN /\ card'.actions[o] = Append(card.actions[o], e)
            /\ card'.items[o] = card.items[o]
       ELSE /\ card'.items[o] = Append(card.items[o], e)
            /\ card'.actions[o] = card.actions[o]
    /\ \A x \in Objects(card) \ {o} :
          card'.items[x] = card.items[x] /\ card'.actions[x] = card.actions[x]

\* The step changes no container, no parent link and not the cursor of the
\* objects that existed before it.
NothingInserted ==
    /\ \A x \in Objects(card) :
          card'.items[x] = card.items[x] /\ card'.actions[x] = card.actions[x]
    /\ \A n \in Nodes(card) : card'.previous[n] = card.previous[n]
    /\ card'.pointer = card.pointer

\* The step changes no container and no class.
ContainersUnchanged ==
    /\ card'.kind = card.kind
    /\ card'.items = card.items
    /\ card'.actions = card.actions

\* C1: a successful add(e) of one node appends e as the last element of the
\* cursor position's action container when e is an action and of its item
\* container otherwise, whatever containers e itself has, and sets e's parent
\* link to the cursor position held before the call.
C1_AddRoutesByAction ==
    [][ (PlainAdd(last') /\ Succeeded(last')) =>
          /\ card.pointer # NoAttr
          /\ AppendsTo(card.pointer, Added(last'))
          /\ card'.previous[Added(last')] = card.pointer ]_vars

\* The last add put an ActionSet, which is no action and has an action
\* container, at the end of the item container of the position it was added at.
C1_Witness ==
    /\ PlainAdd(last) /\ Succeeded(last)
    /\ card.kind[Added(last)] = "ActionSet"
    /\ card.previous[Added(last)] # NoAttr
    /\ card.items[card.previous[Added(last)]] # << >>
    /\ card.items[card.previous[Added(last)]][Len(card.items[card.previous[Added(last)]])]
          = Added(last)

\* C2: after a successful add(e) of one node the cursor is e exactly when e's
\* class exposes an item or an action container, empty or not; otherwise the
\* cursor is where it was before the call.
C2_DescendsIffCapable ==
    [][ (PlainAdd(last') /\ Succeeded(last')) =>
          /\ (card'.pointer = Added(last')) <=> Capable(card'.kind[Added(last')])
          /\ ~Capable(card'.kind[Added(last')]) => card'.pointer = card.pointer ]_vars

\* The last add was of a node whose container already held something, and the
\* cursor is on that node.
C2_Witness ==
    /\ PlainAdd(last) /\ Succeeded(last)
    /\ card.pointer = Added(last)
    /\ Len(card.items[Added(last)]) + Len(card.actions[Added(last)]) > 0

\* The two calls are the add of a container-capable node and the add that
\* follows it directly.
AddAfterCapableAdd ==
    /\ PlainAdd(last) /\ Succeeded(last)
    /\ Capable(card.kind[Added(last)])
    /\ PlainAdd(last')

\* C3 as stated: after the add of a container-capable node, the very next add
\* of a node inserts that node as a child of the container-capable node.
C3_NextAddIsChild ==
    [][ AddAfterCapableAdd =>
          /\ Succeeded(last')
          /\ AppendsTo(Added(last), Added(last')) ]_vars

\* C3 amended: after the add of a container-capable node c, the very next add
\* of a node e appends e to c's container (and to no other) when c exposes
\* the container e is routed to, and raises without inserting e anywhere when
\* c does not.
C3_NextAddIsChildOrRaises ==
    [][ AddAfterCapableAdd =>
          IF Accepts(card, Added(last), card'.kind[Added(last')])
          THEN Succeeded(last') /\ AppendsTo(Added(last), Added(last'))
          ELSE last'.err = "AssertionError" /\ NothingInserted ]_vars

\* The last add put its node into a container of a node that is itself in a
\* container of the card.
C3_Witness ==
    /\ PlainAdd(last) /\ Succeeded(last)
    /\ card.previous[Added(last)] \in Nodes(card)
    /\ card.previous[Added(last)] # Added(last)
    /\ card.previous[Added(last)] \in Holders(card, Added(last))
    /\ card.previous[card.previous[Added(last)]] = Card

C5_AddReturnsElement ==
    (PlainAdd(last) /\ Succeeded(last)) => last.ret = RetRef(Added(last))

\* C5 amended: add returns the card it was called on (so that calls chain),
\* not the inserted element.
C5_AddReturnsCard ==
    (PlainAdd(last) /\ Succeeded(last)) => last.ret = RetRef(Card)

\* The last add inserted a node into a container of another node.
C5_Witness ==
    /\ PlainAdd(last) /\ Succeeded(last)
    /\ card.previous[Added(last)] \in Nodes(card)

\* What up_one_level does to the cursor when there is one.
UpMoves ==
    IF card.pointer # Card /\ card.previous[card.pointer] # NoAttr
    THEN card'.pointer = card.previous[card.pointer]
    ELSE card'.pointer = card.pointer

\* C6 as stated: in any reachable state up_one_level moves the cursor to the
\* parent link of the cursor position when it has one, leaves it at the root
\* when it is there, never raises and changes no container.
C6_UpNeverRaises ==
    [][ last'.op = "up_one_level" =>
          /\ Succeeded(last')
          /\ UpMoves
          /\ ContainersUnchanged ]_vars

\* C6 amended: up_one_level changes no container; while the card has its
\* cursor it does not raise and moves the cursor to the parent link of the
\* cursor position when that has one and leaves it in place otherwise (at the
\* root in particular); once serialization has deleted the cursor it raises
\* AttributeError until the cursor is set again.
C6_UpOneLevel ==
    [][ last'.op = "up_one_level" =>
          /\ ContainersUnchanged
          /\ card'.previous = card.previous
          /\ IF card.pointer = NoAttr
             THEN last'.err = "AttributeError" /\ card'.pointer = NoAttr
             ELSE Succeeded(last') /\ UpMoves ]_vars

\* up_one_level has just returned on a node that is the parent link of a
\* container-capable node.
C6_Witness ==
    /\ last.op = "up_one_level" /\ Succeeded(last)
    /\ card.pointer \in Nodes(card)
    /\ \E n \in Nodes(card) :
          /\ n # card.pointer
          /\ Capable(card.kind[n])
          /\ card.previous[n] = card.pointer

\* C7: save_level returns the cursor position itself and changes nothing;
\* load_level(c) makes the saved position the cursor again, whatever was
\* added or navigated in between; and an add issued right after the load
\* appends to the container of the saved position it is routed to, or raises
\* if that position lacks it, as it would have right after the save.
C7_SaveLoadRoundTrip ==
    [][ /\ (last'.op = "save_level" /\ Succeeded(last')) =>
              checkpoint' = card.pointer /\ card' = card
        /\ last'.op = "load_level" =>
              /\ Succeeded(last')
              /\ card'.pointer = checkpoint
              /\ ContainersUnchanged /\ card'.previous = card.previous
        /\ (last.op = "load_level" /\ PlainAdd(last')) =>
              IF Accepts(card, checkpoint, card'.kind[Added(last')])
              THEN Succeeded(last') /\ AppendsTo(checkpoint, Added(last'))
              ELSE ~Succeeded(last') /\ NothingInserted ]_vars

\* load_level has just put the cursor back on a saved node below which a
\* container-capable node was added.
C7_Witness ==
    /\ last.op = "load_level"
    /\ card.pointer = checkpoint
    /\ checkpoint \in Nodes(card)
    /\ \E n \in Nodes(card) :
          /\ n # checkpoint
          /\ Capable(card.kind[n])
          /\ card.previous[n] = checkpoint

\* C8 as stated: at every point the card has a cursor position, and it is the
\* card or a node below it, serialization included.
C8_CursorInTree ==
    card.pointer = Card \/ card.pointer \in Descendants(card)

\* C8 amended: the cursor position is the card or a node below it whenever
\* the card has one; serialization deletes it, and the card then has no
\* cursor position (every call that reads it raises AttributeError) until
\* back_to_top or load_level sets it again.
C8_CursorInTreeOrDeleted ==
    IF card.pointer = NoAttr
    THEN last.op = "to_json" \/ last.err = "AttributeError"
    ELSE card.pointer = Card \/ card.pointer \in Descendants(card)

\* After a serialization, load_level has put the cursor on a node below the
\* card (the node's parent link is gone).
C8_Witness ==
    /\ last.op = "load_level"
    /\ card.pointer \in Descendants(card)
    /\ card.previous[card.pointer] = NoAttr

\* C9 as stated: serialization leaves every parent link and the cursor as
\* they were.
C9_SerializeKeepsLinks ==
    [][ last'.op = "to_json" =>
          /\ card'.pointer = card.pointer
          /\ card'.previous = card.previous ]_vars

\* C9 amended: serialization changes no container; it deletes the card's
\* cursor and the parent link of every node it serializes (every node below
\* the card when it completes), and keeps the other parent links; the
\* up_one_level or add that follows it raises AttributeError.
C9_SerializeDeletesLinks ==
    [][ /\ last'.op = "to_json" =>
              /\ ContainersUnchanged
              /\ card'.pointer = NoAttr
              /\ \A n \in Nodes(card) :
                    card'.previous[n] \in {NoAttr, card.previous[n]}
              /\ Succeeded(last') =>
                    \A below \in {Descendants(card)} :
                       \A n \in Nodes(card) :
                          card'.previous[n] =
                             IF n \in below THEN NoAttr ELSE card.previous[n]
        /\ (last.op = "to_json" /\ last'.op \in {"up_one_level", "add"}) =>
              last'.err = "AttributeError" /\ NothingInserted ]_vars

\* A serialization has completed, and a node in a container of another node
\* has no parent link.
C9_Witness ==
    /\ last.op = "to_json" /\ Succeeded(last)
    /\ card.pointer = NoAttr
    /\ \E n \in Nodes(card) :
          /\ card.previous[n] = NoAttr
          /\ \E o \in Nodes(card) : o # n /\ o \in Holders(card, n)

\* C10: serializing again, with the same arguments and the tree untouched
\* since the last serialization, completes and returns the output the last
\* serialization returned.
C10_SerializeIdempotent ==
    (last.op = "to_json" /\ Succeeded(last)) =>
        LET again == to_json(card, last.arg[1], last.arg[2])
        IN again.err = "none" /\ again.ret = last.ret

\* A serialization has returned a document whose body holds a node that
\* holds a node of its own.
C10_Witness ==
    /\ last.op = "to_json" /\ Succeeded(last)
    /\ \E n \in Range(card.items[Card]) :
          card.items[n] # << >> \/ card.actions[n] # << >>

\* ------------------------------------------------- the serialized output
\* The string a serialized object carries under the key, "" when it has none.
StrOf(out, key) ==
    IF \E i \in DOMAIN out : out[i].key = key
    THEN out[CHOOSE i \in DOMAIN out : out[i].key = key].str
    ELSE ""

\* The serialized object lists, under each of its array fields, exactly the
\* entries of the container of o the array stands for, one object per entry,
\* in the container's order (told apart by their type), each of them in turn
\* listing the entries of its own containers.
RECURSIVE Mirrors(_, _, _)
Mirrors(out, h, o) ==
    \A i \in DOMAIN out :
        /\ out[i].tag = "list" =>
              LET c == IF out[i].key = "actions" THEN h.actions[o] ELSE h.items[o]
              IN /\ Len(out[i].sub) = Len(c)
                 /\ \A j \in 1..Len(c) :
                       /\ StrOf(out[i].sub[j], "type") = h.kind[c[j]]
                       /\ Mirrors(out[i].sub[j], h, c[j])
        /\ out[i].tag = "obj" => Mirrors(out[i].sub[1], h, o)

\* The keys of a serialized object, in their order.
KeysOf(out) == [i \in DOMAIN out |-> out[i].key]

\* C11: every add appends at the end of one container and leaves the entries
\* that were there in their places, so that each container holds its entries
\* in the order of their addition; and a completed serialization lists, in
\* body, actions and every nested array, the entries of the container in that
\* same order.
C11_InsertionOrder ==
    [][ /\ (PlainAdd(last') /\ Succeeded(last')) =>
              AppendsTo(card.pointer, Added(last'))
        /\ (last'.op = "to_json" /\ Succeeded(last')) =>
              /\ {"body", "actions"} \subseteq Range(KeysOf(last'.ret.v))
              /\ Mirrors(last'.ret.v, card', Card) ]_vars

\* A serialization has returned a document in whose body a container comes
\* before a node of another class.
C11_Witness ==
    /\ last.op = "to_json" /\ Succeeded(last)
    /\ Len(card.items[Card]) >= 2
    /\ card.kind[card.items[Card][1]] = "Container"
    /\ card.kind[card.items[Card][2]] = "TextBlock"

\* The sequence s is the beginning of the sequence t.
IsPrefix(s, t) == Len(s) <= Len(t) /\ SubSeq(t, 1, Len(s)) = s

\* The call is one of add, up_one_level, back_to_top, save_level, load_level.
BuilderCall(l) == l.op \in {"add", "up_one_level", "back_to_top", "save_level", "load_level"}

\* Every container of the objects that existed before the step begins with
\* what it held before the step.
ContainersGrow ==
    \A x \in Objects(card) :
        /\ IsPrefix(card.items[x], card'.items[x])
        /\ IsPrefix(card.actions[x], card'.actions[x])

\* C12 as stated: no builder operation removes an entry of a container, and a
\* parent link that is set is never changed by a builder operation.
C12_NeverReparented ==
    [][ BuilderCall(last') =>
          /\ ContainersGrow
          /\ \A n \in Nodes(card) :
                card.previous[n] # NoAttr => card'.previous[n] = card.previous[n] ]_vars

\* C12 amended: no builder operation removes an entry of a container; a
\* parent link is changed by nothing but a successful add of that very node,
\* which sets it to the cursor position of that add, also when the node was
\* added before and had its link set then.
C12_RelinkedOnlyByAdd ==
    [][ BuilderCall(last') =>
          /\ ContainersGrow
          /\ \A n \in Nodes(card) :
                card'.previous[n] # card.previous[n] =>
                    /\ PlainAdd(last') /\ Succeeded(last')
                    /\ Added(last') = n
                    /\ card'.previous[n] = card.pointer ]_vars

\* The last add was of a node that had been added before at another position:
\* two objects hold it, and its parent link is the position of the last add.
C12_Witness ==
    /\ PlainAdd(last) /\ Succeeded(last)
    /\ Cardinality(Holders(card, Added(last))) = 2
    /\ card.previous[Added(last)] \in Nodes(card) \ {Added(last)}

\* The places of all item containers at which n stands.
ItemPlaces(h, n) ==
    {p \in UNION {{<<o, i>> : i \in 1..Len(h.items[o])} : o \in Objects(h)} :
        h.items[p[1]][p[2]] = n}

\* The number of places at which n stands in the containers of objects 0..o.
RECURSIVE PlacesUpTo(_, _, _)
PlacesUpTo(h, n, o) ==
    IF o < 0 THEN 0
    ELSE Cardinality({i \in DOMAIN h.items[o] : h.items[o][i] = n})
         + Cardinality({i \in DOMAIN h.actions[o] : h.actions[o][i] = n})
         + PlacesUpTo(h, n, o - 1)
Occurrences(h, n) == PlacesUpTo(h, n, Len(h.kind))

\* C13 as stated: every node that is in a container is in exactly one
\* container, at exactly one place.
C13_InOneContainerOnce ==
    \A n \in Nodes(card) : Occurrences(card, n) <= 1

\* C13 amended: a node stands at one place of one container for every
\* successful add of it: a successful add of a node gives it one more place
\* and nothing else changes the places of any node, so that a node added once
\* is in exactly one container exactly once, and a node added again is in two
\* containers or twice in the same one.
C13_OnePlacePerAdd ==
    [][ IF ContainersUnchanged
        THEN ~(PlainAdd(last') /\ Succeeded(last'))
        ELSE \A n \in Nodes(card') :
                Occurrences(card', n) =
                   (IF n \in Nodes(card) THEN Occurrences(card, n) ELSE 0)
                   + (IF PlainAdd(last') /\ Succeeded(last') /\ Added(last') = n
                      THEN 1 ELSE 0) ]_vars

\* The last add put a node into the body that the body already held: it is
\* there twice.
C13_Witness ==
    /\ PlainAdd(last) /\ Succeeded(last)
    /\ Cardinality(ItemPlaces(card, Added(last))) = 2
    /\ Holders(card, Added(last)) = {Card}

\* The keys of a serialized object and of every object nested in it.
RECURSIVE AllKeys(_)
AllKeys(out) ==
    UNION { {out[i].key} \cup
            UNION {AllKeys(out[i].sub[j]) : j \in DOMAIN out[i].sub} :
            i \in DOMAIN out }

\* The attributes that are internal to the builder: the cursor, the parent
\* link, the saved preserve level and the do-not-translate marker.
InternalNames == {"_pointer", "_previous", "_preserve_level", "dont_translate"}

\* C14: the output of a serialization contains none of the internal fields,
\* neither in the document nor in any node reachable from it.
C14_NoInternalFields ==
    (last.op = "to_json" /\ Succeeded(last)) =>
        AllKeys(last.ret.v) \cap InternalNames = {}

\* The serialized nodes of an output (the objects in its arrays, at any depth).
RECURSIVE NodesOut(_)
NodesOut(out) ==
    UNION { IF out[i].tag = "list"
            THEN UNION {{out[i].sub[j]} \cup NodesOut(out[i].sub[j]) : j \in DOMAIN out[i].sub}
            ELSE UNION {NodesOut(out[i].sub[j]) : j \in DOMAIN out[i].sub} :
            i \in DOMAIN out }

\* The serialized nodes of the output of o, each with the node it stands for.
RECURSIVE NodePairs(_, _, _)
NodePairs(out, h, o) ==
    UNION { IF out[i].tag = "list"
            THEN LET c == IF out[i].key = "actions" THEN h.actions[o] ELSE h.items[o]
                 IN UNION {{<<out[i].sub[j], c[j]>>} \cup NodePairs(out[i].sub[j], h, c[j]) :
                           j \in DOMAIN out[i].sub \cap DOMAIN c}
            ELSE UNION {NodePairs(out[i].sub[j], h, o) : j \in DOMAIN out[i].sub} :
            i \in DOMAIN out }

PlaceOf(out, key) == CHOOSE i \in DOMAIN out : out[i].key = key

\* C16: the serialized document has the top-level fields type, version,
\* $schema, body and actions, the three metadata fields before body, and
\* body before actions.
C16_TopLevelFields ==
    (last.op = "to_json" /\ Succeeded(last)) =>
        LET out == last.ret.v IN
        /\ Range(KeysOf(out)) = {"type", "version", "$schema", "body", "actions"}
        /\ Len(out) = 5
        /\ \A m \in {"type", "version", "$schema"} : PlaceOf(out, m) < PlaceOf(out, "body")
        /\ PlaceOf(out, "body") < PlaceOf(out, "actions")

\* C17: from every state back_to_top puts the cursor on the card in one
\* assignment, wherever the cursor was and whatever the parent links are (it
\* does not read them and does not need a cursor to start from); it does not
\* raise and changes nothing else: no container, no parent link.
C17_BackToTop ==
    [][ last'.op = "back_to_top" =>
          /\ Succeeded(last')
          /\ card' = [card EXCEPT !.pointer = Card] ]_vars

\* back_to_top has returned in a state in which the links do not lead from
\* every node up to the card: a node below the card has no parent link or is
\* its own parent link.
C17_Witness ==
    /\ last.op = "back_to_top" /\ Succeeded(last)
    /\ card.pointer = Card
    /\ \E n \in Descendants(card) :
          /\ Capable(card.kind[n])
          /\ card.previous[n] \in {NoAttr, n}

\* The heap with the objects constructed that kinds names beyond those of h.
RECURSIVE Rebuild(_, _)
Rebuild(h, kinds) ==
    IF Len(h.kind) >= Len(kinds) THEN h
    ELSE Rebuild(Construct(h, kinds[Len(h.kind) + 1]), kinds)

\* The heap the add of this step was called on: the card, with the objects
\* the caller constructed for the call.
HeapAtCall == IF card'.kind = card.kind THEN card ELSE Rebuild(Forget(card), card'.kind)

\* The two heaps hold the same tree, with the cursor at the same position.
SameTreeAndCursor(a, b) ==
    /\ a.kind = b.kind /\ a.items = b.items /\ a.actions = b.actions
    /\ a.previous = b.previous
    /\ a.pointer = b.pointer

\* C18: add(element, preserve_level=True) leaves the tree and the cursor that
\* c = save_level(); add(element); load_level(c) leaves, a call of the
\* sequence that raises ending it; when it completes, the cursor is the
\* position held before the call.
C18_PreserveLevelIsSaveAddLoad ==
    [][ (last'.op = "add" /\ last'.arg[2] = TRUE) =>
          \A h0 \in {HeapAtCall} :
          \A s \in {save_level(h0)} :
             IF s.err # "none"
             THEN last'.err = s.err /\ SameTreeAndCursor(card', s.h)
             ELSE \A a \in {add(s.h, last'.arg[1], FALSE)} :
                     IF a.err # "none"
                     THEN last'.err = a.err /\ SameTreeAndCursor(card', a.h)
                     ELSE /\ Succeeded(last')
                          /\ SameTreeAndCursor(card', load_level(a.h, s.ret.v).h)
                          /\ card'.pointer = h0.pointer ]_vars

\* A level-preserving add has put a container-capable node into a container
\* of another node and the cursor is still on that other node.
C18_Witness ==
    /\ last.op = "add" /\ last.arg[2] = TRUE /\ Succeeded(last)
    /\ last.arg[1].t = "obj"
    /\ Capable(card.kind[Added(last)])
    /\ card.pointer \in Nodes(card) \ {Added(last)}
    /\ card.pointer \in Holders(card, Added(last))

\* The members of a list in their order, those of a member that is a list in
\* its place.
RECURSIVE Flatten(_)
FlattenFrom(l, i, rest) ==
    IF l[i].t = "list" THEN Flatten(l[i].v) \o rest ELSE <<l[i]>> \o rest
RECURSIVE FlattenAll(_, _)
FlattenAll(l, i) == IF i > Len(l) THEN << >> ELSE FlattenFrom(l, i, FlattenAll(l, i + 1))
Flatten(l) == FlattenAll(l, 1)

\* card.add(e1); ...; card.add(en): the calls one after the other, the first
\* that raises ending the sequence.
RECURSIVE AddEach(_, _, _)
AddEach(h, es, i) ==
    IF i > Len(es) THEN Ok(h, RetRef(Card))
    ELSE LET r == add(h, es[i], FALSE)
         IN IF r.err # "none" THEN r ELSE AddEach(r.h, es, i + 1)

\* C19: add of a list leaves the card as the calls add(e1), ..., add(en) in
\* that order leave it, each member landing where the one before has moved
\* the cursor to, with the members of a member that is itself a list added
\* at its place in the order; it raises when one of these calls raises.
C19_ListIsAddsInOrder ==
    [][ (last'.op = "add" /\ last'.arg[1].t = "list" /\ last'.arg[2] = FALSE) =>
          \A r \in {AddEach(HeapAtCall, Flatten(last'.arg[1].v), 1)} :
             /\ last'.err = r.err
             /\ card' = r.h ]_vars

\* The last add was of a list whose second member is itself a list, and the
\* object of that inner list has landed in the container of the first member.
C19_Witness ==
    /\ last.op = "add" /\ last.arg[1].t = "list" /\ last.arg[2] = FALSE
    /\ Succeeded(last)
    /\ last.arg[1].v[2].t = "list"
    /\ card.previous[last.arg[1].v[2].v[1].v] = last.arg[1].v[1].v

\* The step adds an action while the cursor is on the card: the action lands
\* at the end of the card's actions, and the body stays as it is.
ActionAtRootLandsInActions ==
    (/\ PlainAdd(last') /\ Succeeded(last')
     /\ card.pointer = Card
     /\ is_an_action(card'.kind[Added(last')])) =>
        /\ card'.actions[Card] = Append(card.actions[Card], Added(last'))
        /\ card'.items[Card] = card.items[Card]

\* The step is the add of a node that is no action, right after the add of an
\* action at the card.
ItemAfterActionAtRoot ==
    /\ PlainAdd(last) /\ Succeeded(last)
    /\ is_an_action(card.kind[Added(last)])
    /\ card.previous[Added(last)] = Card
    /\ PlainAdd(last')
    /\ Added(last') # Added(last)
    /\ ~is_an_action(card'.kind[Added(last')])

\* C20 as stated: an action added while the cursor is on the card lands in
\* the card's actions, not in its body, and an item added next still lands
\* in the card's body.
C20_ActionKeepsItemTarget ==
    [][ /\ ActionAtRootLandsInActions
        /\ ItemAfterActionAtRoot =>
              /\ Succeeded(last')
              /\ AppendsTo(Card, Added(last')) ]_vars

\* C20 amended: an action added while the cursor is on the card lands in the
\* card's actions, not in its body; an item added next still lands in the
\* card's body when the action's class exposes no container (Action.Submit),
\* and lands in the action's own item container (the body of the nested card
\* of an Action.ShowCard, the targetElements of an Action.ToggleVisibility)
\* when it exposes one, because the cursor has moved onto the action.
C20_ActionAtRoot ==
    [][ /\ ActionAtRootLandsInActions
        /\ ItemAfterActionAtRoot =>
              /\ Succeeded(last')
              /\ IF Capable(card.kind[Added(last)])
                 THEN AppendsTo(Added(last), Added(last'))
                 ELSE AppendsTo(Card, Added(last')) ]_vars

\* The last add put a node that is no action into the body of the card right
\* after an Action.Submit was added to the card's actions.
C20_Witness ==
    /\ PlainAdd(last) /\ Succeeded(last)
    /\ ~is_an_action(card.kind[Added(last)])
    /\ card.items[Card] = <<Added(last)>>
    /\ Len(card.actions[Card]) = 1
    /\ card.kind[card.actions[Card][1]] = "Action.Submit"
    /\ card.actions[Card][1] < Added(last)

\* ------------------------------------------------ the column-set example
\* The calls of the column-set example (examples/sandbox.py), a grouping
\* container with one text put before it, and the serialization after it.
ExampleAdd(k, kw) == [op |-> "add", kind |-> k, kw |-> kw]
ExampleCall(op) == [op |-> op, kind |-> "", kw |-> << >>]
ColumnSetExample ==
    << ExampleAdd("Container", << >>),
       ExampleAdd("TextBlock", << <<"text", "Header">> >>),
       ExampleCall("back_to_top"),
       ExampleAdd("ColumnSet", << >>),
       ExampleAdd("Column", << <<"width", "1">> >>),
       ExampleAdd("TextBlock", << <<"text", "<Column 1 Contents>">> >>),
       ExampleCall("up_one_level"),
       ExampleAdd("Column", << <<"width", "1">> >>),
       ExampleAdd("TextBlock", << <<"text", "<Column 2 Contents>">> >>),
       ExampleCall("to_json") >>

\* The caller makes the next call of the example.
ExampleStep ==
    /\ Len(script) < Len(ColumnSetExample)
    /\ LET c == ColumnSetExample[Len(script) + 1]
           h == ConstructWith(Forget(card), c.kind, c.kw)
       IN \E r \in { CASE c.op = "add" -> add(h, Obj(Len(h.kind)), FALSE)
                       [] c.op = "up_one_level" -> up_one_level(card)
                       [] c.op = "back_to_top" -> back_to_top(card)
                       [] c.op = "to_json" -> to_json(card, DefaultVersion, DefaultSchema) } :
             /\ card' = r.h
             /\ last' = Call(c.op, IF c.op = "add" THEN <<Obj(Len(h.kind)), FALSE>> ELSE << >>, r)
    /\ script' = Append(script, TRUE)
    /\ UNCHANGED <<checkpoint, translation, cards>>

\* The caller leaves the next call of the example out.
ExampleSkip ==
    /\ Len(script) < Len(ColumnSetExample)
    /\ script' = Append(script, FALSE)
    /\ UNCHANGED <<card, checkpoint, last, translation, cards>>

NextExample ==
    \/ ExampleStep
    \/ ExampleSkip

\* A caller that goes through the column-set example and makes each of its
\* calls or leaves it out.
SpecExample == Init /\ [][NextExample]_vars

\* The array a serialized object carries under the key, empty when it has none.
ArrayOf(out, key) ==
    IF \E i \in DOMAIN out : out[i].key = key /\ out[i].tag = "list"
    THEN out[CHOOSE i \in DOMAIN out : out[i].key = key /\ out[i].tag = "list"].sub
    ELSE << >>

\* The caller has made every call of the example.
ExampleDone ==
    /\ Len(script) = Len(ColumnSetExample)
    /\ \A i \in DOMAIN script : script[i]

\* C21: after add(Container), add(Text), back_to_top, add(ColumnSet),
\* add(Column), add(Text), up_one_level, add(Column), add(Text) on an empty
\* document, the serialization returns a body array of length 2 in which
\* body[1].columns has length 2 and each column's items array has length 1.
C21_ColumnSetExample ==
    ExampleDone =>
        /\ last.op = "to_json" /\ Succeeded(last)
        /\ LET body == ArrayOf(last.ret.v, "body") IN
           /\ Len(body) = 2
           /\ Len(ArrayOf(body[2], "columns")) = 2
           /\ \A j \in 1..2 : Len(ArrayOf(ArrayOf(body[2], "columns")[j], "items")) = 1

\* The example has run to its end and was serialized: the first entry of the
\* body is the grouping container with its one text, the second the column set.
C21_Witness ==
    /\ ExampleDone
    /\ last.op = "to_json" /\ Succeeded(last)
    /\ StrOf(ArrayOf(last.ret.v, "body")[1], "type") = "Container"
    /\ StrOf(ArrayOf(ArrayOf(last.ret.v, "body")[1], "items")[1], "text") = "Header"
    /\ StrOf(ArrayOf(last.ret.v, "body")[2], "type") = "ColumnSet"

\* ------------------------------------------------------- the translation
\* The object and everything in its containers, at any depth.
RECURSIVE Under(_, _)
Under(h, o) ==
    {o} \cup UNION {Under(h, c) : c \in Range(h.items[o]) \cup Range(h.actions[o])}

\* In the list of pairs, every pair of an object of A comes before every pair
\* of an object of B.
AllBefore(pairs, A, B) ==
    \A i, j \in DOMAIN pairs : (pairs[i][1] \in A /\ pairs[j][1] \in B) => i < j

\* The place of the attribute in the translatable attributes of the class.
AttributePlace(k, attribute) ==
    CHOOSE i \in DOMAIN translatable_attributes(k) : translatable_attributes(k)[i] = attribute

\* The to_json the caller awaits has just collected its pairs and sent its
\* requests: the card is as the collection found it.
Collected == translation.pc = "awaiting" /\ translation.done = << >>

\* C22: the pairs are collected depth-first in pre-order: the pairs of one
\* object in the order of its class's translatable attributes; the pairs of
\* an object before those of everything below it; within a container (the
\* body, the actions, a node's item or action container) entry by entry in
\* the container's order, each entry with everything below it; and what is
\* under the item container (the body) before what is under the action
\* container (the actions).
C22_PreOrderWalk ==
    Collected =>
        \A pairs \in {translation.pairs} :
        \A under \in {[o \in Objects(card) |-> Under(card, o)]} :
        /\ \A i, j \in DOMAIN pairs :
              (i < j /\ pairs[i][1] = pairs[j][1]) =>
                  AttributePlace(card.kind[pairs[i][1]], pairs[i][2])
                     < AttributePlace(card.kind[pairs[j][1]], pairs[j][2])
        /\ \A o \in Objects(card) :
              /\ o # Card => AllBefore(pairs, {o}, under[o] \ {o})
              /\ \A a, b \in DOMAIN card.items[o] :
                    a < b => AllBefore(pairs, under[card.items[o][a]], under[card.items[o][b]])
              /\ \A a, b \in DOMAIN card.actions[o] :
                    a < b => AllBefore(pairs, under[card.actions[o][a]],
                                              under[card.actions[o][b]])
              /\ \A a \in DOMAIN card.items[o], b \in DOMAIN card.actions[o] :
                    AllBefore(pairs, under[card.items[o][a]], under[card.actions[o][b]])

\* The pairs were collected from a card whose first object has a title, an
\* item with a text and an action with a title: the three pairs in pre-order.
C22_Witness ==
    /\ Collected
    /\ Len(card.kind) = 3
    /\ card.items[1] = <<2>> /\ card.actions[1] = <<3>>
    /\ translation.pairs = << <<1, "title">>, <<2, "text">>, <<3, "title">> >>

\* The object carries a dont_translate attribute.
Marked(h, n) == \E i \in DOMAIN h.kwargs[n] : h.kwargs[n][i][1] = "dont_translate"

\* The fields the claim counts as eligible: of the nodes in the tree without a
\* do-not-translate marker, the translatable attributes that are present
\* with a non-empty value.
Eligible(h) ==
    { p \in ((Under(h, Card) \ {Card}) \X {"text", "title", "placeholder", "value"}) :
         /\ p[2] \in Range(translatable_attributes(h.kind[p[1]]))
         /\ ~Marked(h, p[1])
         /\ hasattr(h, p[1], p[2])
         /\ getattr(h, p[1], p[2]) # "" }

\* C23: the collected list holds a pair exactly for the eligible fields (the
\* reachable nodes without a do-not-translate marker, the translatable fields
\* present with a non-empty value), each once: its length is their number.
C23_PairsAreEligibleFields ==
    Collected =>
        /\ Range(translation.pairs) = Eligible(card)
        /\ Len(translation.pairs) = Cardinality(Eligible(card))

\* The call to_json(translator_to_lang=...) is made in this step.
TranslateCalled == translation.pc = "idle" /\ translation'.pc # "idle"

\* C24: a to_json whose target language code is not in the supported set
\* fails (it raises, in the step of the call) with no request dispatched, and
\* no field of a node or container modified.
C24_UnsupportedLanguageFailsFirst ==
    [][ (TranslateCalled /\ translation'.args[3] \notin supported_languages) =>
            /\ translation'.pc = "returned"
            /\ last'.op = "to_json" /\ last'.err = "AssertionError"
            /\ translation'.bodies = << >> /\ translation'.done = << >>
            /\ card'.kwargs = card.kwargs
            /\ card'.items = card.items /\ card'.actions = card.actions ]_vars

\* A to_json with the language code "xx" has raised on a card that holds a
\* text to translate.
C24_Witness ==
    /\ translation.pc = "returned"
    /\ translation.args[3] = "xx"
    /\ last.op = "to_json" /\ last.err = "AssertionError"
    /\ \E n \in Under(card, Card) \ {Card} :
          card.kind[n] = "TextBlock" /\ getattr(card, n, "text") # ""

\* The to_json has passed its assertions: it has collected and sent.
Sent ==
    /\ translation.pc \in {"awaiting", "returned"}
    /\ translation.args[3] \in supported_languages /\ translation.args[4] # ""

\* The sequences of a sequence, one after the other.
RECURSIVE Concat(_, _)
Concat(seqs, k) == IF k > Len(seqs) THEN << >> ELSE seqs[k] \o Concat(seqs, k + 1)

\* C25: for N collected pairs there are ceil(N / BatchSize) request bodies
\* (none for N = 0), each of at most BatchSize texts and each but the last of
\* exactly BatchSize; one after the other they are the texts of the collected
\* pairs in the order of the list; and there is one request per body: every
\* completion is of one of the bodies, no body has two, and when to_json has
\* returned every body has one.
C25_BatchesOfBatchSize ==
    Sent =>
        LET N == Len(translation.pairs)
            bodies == translation.bodies
            done == translation.done
        IN /\ Len(bodies) * BatchSize >= N
           /\ (Len(bodies) - 1) * BatchSize < N \/ (N = 0 /\ bodies = << >>)
           /\ \A k \in DOMAIN bodies :
                 /\ Len(bodies[k]) \in 1..BatchSize
                 /\ k < Len(bodies) => Len(bodies[k]) = BatchSize
           /\ Collected =>
                 Concat(bodies, 1) =
                    [i \in 1..N |-> getattr(card, translation.pairs[i][1],
                                            translation.pairs[i][2])]
           /\ \A i \in DOMAIN done : done[i].request \in DOMAIN bodies
           /\ \A i, j \in DOMAIN done : i # j => done[i].request # done[j].request
           /\ translation.pc = "returned" => Len(done) = Len(bodies)

\* The pairs were sent in more than one body, the last one not full.
C25_Witness ==
    /\ Collected
    /\ Len(translation.bodies) >= 2
    /\ Len(translation.bodies[Len(translation.bodies)]) < BatchSize
    /\ Len(translation.bodies[1]) = BatchSize

\* What the request for body k ended with.
ResultOf(tr, k) == tr.done[CHOOSE i \in DOMAIN tr.done : tr.done[i].request = k].result

\* The value now of the field of the j-th pair of batch k.
FieldOf(h, tr, k, j) ==
    getattr(h, tr.pairs[(k - 1) * BatchSize + j][1], tr.pairs[(k - 1) * BatchSize + j][2])

\* The to_json has returned or raised after its requests.
Returned == Sent /\ translation.pc = "returned"

\* C26: whatever the order in which the requests completed, when to_json has
\* returned, response j of batch k is in the field of the collected pair at
\* index BatchSize * k + j (counted from 0), for every batch that the
\* unpacking came to (no request of an earlier batch, or its own, raised).
C26_AppliedByBatchIndex ==
    Returned =>
        \A k \in DOMAIN translation.bodies :
            (\A b \in 1..k : ~ResultOf(translation, b).raised) =>
                \A j \in DOMAIN translation.bodies[k] :
                    FieldOf(card, translation, k, j) = ResultOf(translation, k).json[j]

\* Two requests completed in the reverse of their order, both with a
\* response, and to_json has returned the translated card.
C26_Witness ==
    /\ Returned /\ Succeeded(last)
    /\ Len(translation.bodies) = 2
    /\ translation.done[1].request = 2 /\ translation.done[2].request = 1

\* The requests that have been dispatched and have not completed.
Outstanding(tr) == {k \in DOMAIN tr.bodies : ~Completed(tr.done, k)}

\* C27: while a dispatched request is outstanding, to_json neither returns
\* nor raises, and no field of a node is written.
C27_Barrier ==
    [][ (translation.pc = "awaiting" /\ Outstanding(translation) # {}) =>
            /\ translation'.pc = "awaiting"
            /\ last' = last
            /\ card' = card ]_vars

\* to_json has returned after three requests, of which the last one
\* dispatched completed first.
C27_Witness ==
    /\ Returned
    /\ Len(translation.bodies) = 3
    /\ Outstanding(translation) = {}
    /\ translation.done[1].request = 3

\* C28: when to_json has returned, the pairs of every batch whose request
\* failed hold their original text, the pairs of every batch whose request
\* succeeded hold the translated text at the matching index, before or after
\* a failed one, and if a request failed the call has raised.
C28_AtomicPerBatch ==
    Returned =>
        /\ \A k \in DOMAIN translation.bodies :
              \A j \in DOMAIN translation.bodies[k] :
                  FieldOf(card, translation, k, j) =
                     IF ResultOf(translation, k).raised
                     THEN translation.bodies[k][j]
                     ELSE ResultOf(translation, k).json[j]
        /\ (\E k \in DOMAIN translation.bodies : ResultOf(translation, k).raised) =>
              (last.op = "to_json" /\ last.err # "none")

Attributes(h, n) == SelectSeq(h.kwargs[n], LAMBDA a : a[1] # "dont_translate")

\* C30: when every request has succeeded and to_json goes on, the field of
\* the i-th collected pair comes to hold the service's output for the i-th
\* collected text, for every i; it is written in place: the attribute keeps
\* its place among the attributes of the same object, every other attribute
\* keeps its value, and every object keeps its class and its place in the
\* containers.
C30_TranslatedInPlace ==
    [][ (/\ translation.pc = "awaiting" /\ translation'.pc = "returned"
         /\ \A k \in DOMAIN translation.bodies : ~ResultOf(translation, k).raised) =>
            /\ Succeeded(last')
            /\ \A i \in DOMAIN translation.pairs :
                  getattr(card', translation.pairs[i][1], translation.pairs[i][2]) =
                     Translated(translation.args[3],
                                getattr(card, translation.pairs[i][1], translation.pairs[i][2]))
            /\ card'.kind = card.kind
            /\ card'.items = card.items /\ card'.actions = card.actions
            /\ \A n \in Nodes(card) :
                  /\ Len(Attributes(card', n)) = Len(Attributes(card, n))
                  /\ \A a \in DOMAIN Attributes(card, n) :
                        /\ Attributes(card', n)[a][1] = Attributes(card, n)[a][1]
                        /\ <<n, Attributes(card, n)[a][1]>> \notin Range(translation.pairs) =>
                              Attributes(card', n)[a][2] = Attributes(card, n)[a][2] ]_vars

\* Every request has succeeded and to_json has returned a card of three
\* objects whose texts, in more than one batch, are all translated.
C30_Witness ==
    /\ Returned /\ Succeeded(last)
    /\ Len(translation.bodies) >= 2
    /\ Len(card.kind) = 3
    /\ \A k \in DOMAIN translation.bodies : ~ResultOf(translation, k).raised
    /\ \A i \in DOMAIN translation.pairs :
          getattr(card, translation.pairs[i][1], translation.pairs[i][2]) =
             Translated("fr", Concat(translation.bodies, 1)[i])

\* ----------------------------------------------------------- show cards
\* The cursor is on an ActionShowCard.
OnShowCard == card.pointer \in Nodes(card) /\ card.kind[card.pointer] = "Action.ShowCard"

\* An add with the cursor on a show card appends a non-action to the nested
\* card's body and an action to the nested card's actions, and links the
\* added node to the show card itself.
AddsIntoShowCard ==
    (PlainAdd(last') /\ OnShowCard) =>
        /\ Succeeded(last')
        /\ AppendsTo(card.pointer, Added(last'))
        /\ card'.previous[Added(last')] = card.pointer

\* No builder call moves the cursor of the card nested in a show card that
\* is in a container.
NestedCursorStays ==
    BuilderCall(last') =>
        \A n \in Nodes(card) :
            ~Unplaced(card, n) => (n \in card'.nested_pointer <=> n \in card.nested_pointer)

\* C31 as stated: with the cursor on a show card, adds go to the nested
\* card's body and actions and are linked to the show card; up_one_level from
\* the show card returns to the position the show card was added at (an
\* object that holds it); the nested card's own cursor is never moved.
C31_ShowCardUpReturns ==
    [][ /\ AddsIntoShowCard
        /\ NestedCursorStays
        /\ (last'.op = "up_one_level" /\ OnShowCard) =>
              card'.pointer \in Holders(card, card.pointer) ]_vars

\* C31 amended: the same, but up_one_level from the show card returns to the
\* position of the last add of the show card only while the show card has its
\* parent link; once a serialization has deleted the link, up_one_level leaves
\* the cursor on the show card.
C31_ShowCardUpFollowsLink ==
    [][ /\ AddsIntoShowCard
        /\ NestedCursorStays
        /\ (last'.op = "up_one_level" /\ OnShowCard) =>
              IF card.previous[card.pointer] # NoAttr
              THEN /\ card'.pointer = card.previous[card.pointer]
                   /\ card'.pointer \in Holders(card, card.pointer)
              ELSE card'.pointer = card.pointer ]_vars

\* An action was just added with the cursor on a show card: it is in the
\* nested card's actions and its parent link is the show card.
C31_Witness ==
    /\ PlainAdd(last) /\ Succeeded(last)
    /\ is_an_action(card.kind[Added(last)])
    /\ card.previous[Added(last)] \in Nodes(card)
    /\ card.previous[Added(last)] # Added(last)
    /\ card.kind[card.previous[Added(last)]] = "Action.ShowCard"
    /\ Added(last) \in Range(card.actions[card.previous[Added(last)]])
\* ------------------------------------------------------ codeword strings
\* The last call was card.add("<codeword>", preserve_level=pl).
CodewordAdd(l, pl) == l.op = "add" /\ l.arg[1].t = "str" /\ l.arg[2] = pl

\* Where a codeword string leaves the cursor that was on o: the card when it
\* holds "^"; else the object o's parent link names when it holds "<" (the
\* card has none, and stays); else o.
CodewordTarget(h, s, o) ==
    IF Contains(s, "^") THEN Card
    ELSE IF Contains(s, "<") /\ o # Card THEN h.previous[o]
    ELSE o

\* No container, parent link or object of the card changes in the step.
TreeStays ==
    /\ card'.kind = card.kind /\ card'.items = card.items
    /\ card'.actions = card.actions /\ card'.previous = card.previous

NextCursor ==
    \/ AddText
    \/ (Building /\ UpOneLevel)
    \/ (Building /\ BackToTop)
    \/ ToJsonTranslate
    \/ RequestCompletes
    \/ ToJsonReturns
    \/ (Building /\ ToJson)

SpecCursor == Init /\ [][NextCursor]_vars

\* The step is a to_json without translator_to_lang, from call to return.
PlainToJson == translation.pc = "idle" /\ translation'.pc = "idle" /\ last'.op = "to_json"

\* The step is the end of a translating to_json that got to its requests.
TranslateReturned == translation.pc = "awaiting" /\ translation'.pc = "returned"

Versions == {DefaultVersion, "1.0"}
Schemas == {DefaultSchema, "http://example.org/card.json"}

\* card = AdaptiveCard(schema=..., version=...)
InitVersion ==
    /\ card \in {NewCard(s, v) : s \in Schemas, v \in Versions}
    /\ checkpoint = NoAttr
    /\ last = [op |-> "init", arg |-> << >>, err |-> "none", ret |-> RetNone]
    /\ script = << >>
    /\ translation = NoTranslation
    /\ cards = << >>

\* await card.to_json(version=..., schema=...), any number of times.
ToJsonWith ==
    /\ \E v \in Versions, s \in Schemas :
          \E r \in {to_json(card, v, s)} :
             /\ card' = r.h
             /\ last' = Call("to_json", <<v, s>>, r)
    /\ UNCHANGED <<checkpoint, script, translation, cards>>

NextVersion ==
    \/ AddNew(FALSE)
    \/ UpOneLevel
    \/ ToJsonWith

SpecVersion == InitVersion /\ [][NextVersion]_vars

\* C35: every to_json leaves on the card the version and schema it was called
\* with, whether it returns or raises, and a to_json that returns gives these
\* two in the document: what the card was constructed with, or what an
\* earlier to_json left, is in the output only when the call passes it again.
C35_ToJsonOverwritesVersionAndSchema ==
    [][ last'.op = "to_json" =>
          /\ card'.version = last'.arg[1]
          /\ card'.schema = last'.arg[2]
          /\ Succeeded(last') =>
                /\ StrOf(last'.ret.v, "version") = last'.arg[1]
                /\ StrOf(last'.ret.v, "schema") = last'.arg[2] ]_vars

\* A to_json has returned with the default version and schema on a card that
\* holds a node; the defaults are what the card has now.
C35_Witness ==
    /\ last.op = "to_json" /\ Succeeded(last)
    /\ last.arg = <<DefaultVersion, DefaultSchema>>
    /\ StrOf(last.ret.v, "version") = DefaultVersion
    /\ card.version = DefaultVersion /\ card.schema = DefaultSchema
    /\ card.items[Card] # << >>

\* ------------------------------------------------- a list that fails
\* The last call was card.add([...], preserve_level=...).
ListAdd(l) == l.op = "add" /\ l.arg[1].t = "list"

BelowMarkedCollected(h, pairs) ==
    \A n \in Under(h, Card) \ {Card} :
        Marked(h, n) =>
            \A m \in Range(h.items[n]) \cup Range(h.actions[n]) :
                \A i \in DOMAIN own_pairs(h, m) :
                    own_pairs(h, m)[i] \in Range(pairs)

\* C38 as stated: the collected list holds no pair of a node that carries a
\* dont_translate attribute, whatever its value, and holds the pairs of the
\* nodes in the containers of such a node.
C38_MarkerSuppressesOwnPairsOnly ==
    Collected =>
        /\ \A n \in Under(card, Card) \ {Card} :
              Marked(card, n) => \A i \in DOMAIN translation.pairs : translation.pairs[i][1] # n
        /\ BelowMarkedCollected(card, translation.pairs)

\* ------------------------------------------------ links and the tree
\* The number of containers between the card and the object o: how deep the
\* containers hold it (more than there are objects when none leads to it).
RECURSIVE TreeDepth(_, _, _)
TreeDepth(h, o, fuel) ==
    IF o = Card THEN 0
    ELSE IF fuel = 0 \/ Holders(h, o) = {} THEN Len(h.kind) + 1
    ELSE 1 + TreeDepth(h, CHOOSE x \in Holders(h, o) : TRUE, fuel - 1)

\* card.up_one_level(), times times, with the cursor on o to begin with.
RECURSIVE UpTimes(_, _, _)
UpTimes(h, o, times) ==
    IF times = 0 THEN o
    ELSE UpTimes(h, up_one_level([h EXCEPT !.pointer = o]).h.pointer, times - 1)

\* C39: while the caller adds every node at most once (and navigates), every
\* node in a container is in one container, once, and its parent link names
\* the object that holds it; the links of a node lead to the card in as many
\* steps as the node is deep, so they form no cycle; and from every node, and
\* from the card, up_one_level that many times puts the cursor on the card,
\* not sooner, and once more leaves it there. The cursor is on the card or on
\* such a node.
C39_LinksAreTheTree ==
    /\ card.pointer = Card \/ (card.pointer \in Nodes(card) /\ ~Unplaced(card, card.pointer))
    /\ UpTimes(card, Card, 1) = Card
    /\ \A n \in Nodes(card) :
          ~Unplaced(card, n) =>
             /\ Occurrences(card, n) = 1
             /\ Holders(card, n) = {card.previous[n]}
             /\ \A d \in {TreeDepth(card, n, Len(card.kind))} :
                   /\ d \in 1..Len(card.kind)
                   /\ UpTimes(card, n, d) = Card
                   /\ UpTimes(card, n, d - 1) # Card
                   /\ UpTimes(card, n, d + 1) = Card

\* The cursor is on a node two levels below the card, which a node under the
\* card holds.
C39_Witness ==
    /\ card.pointer \in Nodes(card)
    /\ TreeDepth(card, card.pointer, Len(card.kind)) = 2
    /\ card.previous[card.pointer] \in Nodes(card)
    /\ UpTimes(card, card.pointer, 2) = Card

\* ------------------------------------------------------ combining cards
\* A _previous that names an AdaptiveCard other than the card of the heap: the
\* link of a node that was added to one card and now is in the body of
\* another.
Foreign == -2

\* An AdaptiveCard among the others, the ref-th: its heap, and for each of its
\* nodes which object it is, <<the card it was constructed for, its number>>.
CardObject(h, ref) == [h |-> h, origin |-> [n \in 1..Len(h.kind) |-> <<ref, n>>]]

\* A copy that is the object itself.
deepcopy_same_object(store, ref) == [store |-> store, ref |-> ref]

\* copy.deepcopy(card): one more AdaptiveCard, with the same tree of new
\* objects.
deepcopy(store, ref) ==
    [store |-> Append(store, CardObject(store[ref].h, Len(store) + 1)),
     ref |-> Len(store) + 1]

\* An action set that goes in front of the body.
with_action_set_in_front(c, ref) ==
    IF c.h.actions[Card] = << >> THEN c
    ELSE LET h1 == Construct(c.h, "ActionSet")
             n  == Len(h1.kind)
         IN [h |-> [h1 EXCEPT !.actions[n] = c.h.actions[Card],
                              !.items[Card] = <<n>> \o @,
                              !.actions[Card] = << >>],
             origin |-> Append(c.origin, <<ref, n>>)]

\* __add__, for each operand: if card.actions: an ActionSet() takes the card's
\* actions, goes to the end of the body, and the card's actions are emptied.
with_action_set(c, ref) ==
    IF c.h.actions[Card] = << >> THEN c
    ELSE LET h1 == Construct(c.h, "ActionSet")
             n  == Len(h1.kind)
         IN [h |-> [h1 EXCEPT !.actions[n] = c.h.actions[Card],
                              !.items[Card] = Append(@, n),
                              !.actions[Card] = << >>],
             origin |-> Append(c.origin, <<ref, n>>)]

\* self_.body.extend(card.body): the nodes of b are in the body of a after
\* those of a, numbered after them; they are the same objects, and the links
\* that named b's card still name it.
extend_body(a, b) ==
    LET k  == Len(a.h.kind)
        nb == Len(b.h.kind)
        MovedLink(o) == IF o = Card THEN Foreign ELSE IF o < 0 THEN o ELSE o + k
        MovedList(l) == [i \in DOMAIN l |-> l[i] + k]
    IN [h |-> [a.h EXCEPT
                 !.kind = @ \o b.h.kind,
                 !.items = [o \in 0..(k + nb) |->
                              IF o = Card THEN a.h.items[Card] \o MovedList(b.h.items[Card])
                              ELSE IF o <= k THEN a.h.items[o]
                              ELSE MovedList(b.h.items[o - k])],
                 !.actions = [o \in 0..(k + nb) |->
                              IF o <= k THEN a.h.actions[o]
                              ELSE MovedList(b.h.actions[o - k])],
                 !.previous = @ \o [n \in 1..nb |-> MovedLink(b.h.previous[n])],
                 !.nested_pointer = @ \cup {n + k : n \in b.h.nested_pointer},
                 !.kwargs = @ \o b.h.kwargs],
        origin |-> a.origin \o b.origin]

\* AdaptiveCard.__add__(self, card), the cards being store[self] and
\* store[card]: the store after the call and the card returned.
plus(store, self, other) ==
    LET d1 == deepcopy(store, self)
        d2 == deepcopy(d1.store, other)
        a  == with_action_set(d2.store[d1.ref], d1.ref)
        b  == with_action_set(d2.store[d2.ref], d2.ref)
    IN [store |-> [d2.store EXCEPT ![d2.ref] = b, ![d1.ref] = extend_body(a, b)],
        ref |-> d1.ref,
        err |-> "none"]

\* for card in cards[1:]: first_card += card
RECURSIVE combine_from(_, _, _, _)
combine_from(store, first_card, list, i) ==
    IF i > Len(list) THEN [store |-> store, ref |-> first_card, err |-> "none"]
    ELSE LET r == plus(store, first_card, list[i])
         IN combine_from(r.store, r.ref, list, i + 1)

\* combine_adaptive_cards(cards) for the list of cards store[list[1]], ...
combine_adaptive_cards(store, list) ==
    IF list = << >> THEN [store |-> store, ref |-> NoAttr, err |-> "IndexError"]
    ELSE IF Len(list) < 2 THEN [store |-> store, ref |-> list[1], err |-> "none"]
    ELSE combine_from(store, list[1], list, 2)

RetCard(ref) == [t |-> "card", v |-> ref]

\* The caller has combined its cards.
Combined == last.op \in {"__add__", "combine_adaptive_cards"}

\* The number of cards the caller builds to combine them.
MaxCards == MaxNodes + 1

\* The classes the caller builds the cards with: an item, an item with a
\* container, an action.
PartKinds == {"TextBlock", "Container", "Action.Submit"}

\* The number of nodes the caller has constructed for the cards put aside.
RECURSIVE NodesOf(_, _)
NodesOf(store, i) == IF i = 0 THEN 0 ELSE Len(store[i].h.kind) + NodesOf(store, i - 1)

\* card.add(K(...)) on the card the caller is building.
AddPart ==
    /\ ~Combined
    /\ Len(Forget(card).kind) < MaxNodes
    /\ Len(Forget(card).kind) + NodesOf(cards, Len(cards)) < MaxNodes + 2
    /\ Room(card)
    /\ \E k \in PartKinds :
          LET h == Construct(Forget(card), k)
              e == Len(h.kind)
          IN \E r \in {add(h, Obj(e), FALSE)} :
                /\ card' = r.h
                /\ last' = Call("add", <<Obj(e), FALSE>>, r)
    /\ UNCHANGED <<checkpoint, script, translation, cards>>

\* The caller puts the card it has built aside and begins another:
\* card = AdaptiveCard().
PutAside ==
    /\ ~Combined
    /\ Len(cards) < MaxCards
    /\ cards' = Append(cards, CardObject(Forget(card), Len(cards) + 1))
    /\ card' = NewCard(DefaultSchema, DefaultVersion)
    /\ last' = [op |-> "AdaptiveCard", arg |-> << >>, err |-> "none", ret |-> RetNone]
    /\ UNCHANGED <<checkpoint, script, translation>>

\* cards[0] + cards[-1], of the one or two cards put aside.
Plus ==
    /\ ~Combined
    /\ card.kind = << >>
    /\ Len(cards) \in 1..2
    /\ \E r \in {plus(cards, 1, Len(cards))} :
          /\ cards' = r.store
          /\ last' = [op |-> "__add__", arg |-> <<1, Len(cards)>>,
                      err |-> r.err, ret |-> RetCard(r.ref)]
    /\ UNCHANGED <<card, checkpoint, script, translation>>

\* combine_adaptive_cards(cards), of the cards put aside.
Combine ==
    /\ ~Combined
    /\ card.kind = << >>
    /\ \E list \in {[k \in DOMAIN cards |-> k]} :
          \E r \in {combine_adaptive_cards(cards, list)} :
             /\ cards' = r.store
             /\ last' = [op |-> "combine_adaptive_cards", arg |-> <<list>>,
                         err |-> r.err,
                         ret |-> IF r.err = "none" THEN RetCard(r.ref) ELSE RetNone]
    /\ UNCHANGED <<card, checkpoint, script, translation>>

\* The caller builds cards, one after the other, and combines them.
NextCombine ==
    \/ AddPart
    \/ (~Combined /\ UpOneLevel)
    \/ PutAside
    \/ Plus
    \/ Combine

SpecCombine == Init /\ [][NextCombine]_vars

\* What a node is in a document: its class, its attributes, and what the
\* nodes in its containers are, in their order.
RECURSIVE Shape(_, _)
Shape(h, n) ==
    [kind |-> h.kind[n],
     kwargs |-> h.kwargs[n],
     items |-> [i \in DOMAIN h.items[n] |-> Shape(h, h.items[n][i])],
     actions |-> [i \in DOMAIN h.actions[n] |-> Shape(h, h.actions[n][i])]]

ShapesOf(h, l) == [i \in DOMAIN l |-> Shape(h, l[i])]

\* The action set that holds the card's actions, if the card has any.
ActionSetOf(h) ==
    IF h.actions[Card] = << >> THEN << >>
    ELSE << [kind |-> "ActionSet", kwargs |-> << >>, items |-> << >>,
             actions |-> ShapesOf(h, h.actions[Card])] >>

\* C32: the card a + b returns has in its body what a has in its body, then
\* one action set with a's actions if a has any, then what b has in its body,
\* then one action set with b's actions if b has any, every list in the order
\* it had; its actions are empty (whenever a has an action, and otherwise).
C32_SumOfCards ==
    [][ last'.op = "__add__" =>
          \A a \in {cards[last'.arg[1]].h} :
          \A b \in {cards[last'.arg[2]].h} :
          \A r \in {cards'[last'.ret.v].h} :
             /\ ShapesOf(r, r.items[Card]) =
                   ShapesOf(a, a.items[Card]) \o ActionSetOf(a)
                      \o ShapesOf(b, b.items[Card]) \o ActionSetOf(b)
             /\ r.actions[Card] = << >> ]_vars

\* a + b has returned a body of four: an item of a, the action set of a's
\* action, an item of b, the action set of b's action.
C32_Witness ==
    /\ last.op = "__add__" /\ last.arg[1] # last.arg[2]
    /\ \E r \in {cards[last.ret.v].h} :
          /\ Len(r.items[Card]) = 4
          /\ r.kind[r.items[Card][2]] = "ActionSet" /\ r.actions[r.items[Card][2]] # << >>
          /\ r.kind[r.items[Card][4]] = "ActionSet" /\ r.actions[r.items[Card][4]] # << >>

\* The objects that are nodes of the cards of the store.
NodeObjects(store) == UNION {Range(store[i].origin) : i \in DOMAIN store}

\* C36: a + b, and combine_adaptive_cards of two cards or more, leave every
\* card there was as it was (body, actions, parent links, cursor, every node)
\* and return a card that was not there, none of whose nodes is a node of a
\* card that was there; combine_adaptive_cards of one card returns that card,
\* and makes no other.
C36_CombiningKeepsOperands ==
    [][ (last'.op \in {"__add__", "combine_adaptive_cards"} /\ Succeeded(last')) =>
          /\ \A i \in DOMAIN cards : cards'[i] = cards[i]
          /\ IF last'.op = "combine_adaptive_cards" /\ Len(last'.arg[1]) = 1
             THEN last'.ret.v = last'.arg[1][1] /\ cards' = cards
             ELSE /\ last'.ret.v \in DOMAIN cards' \ DOMAIN cards
                  /\ Range(cards'[last'.ret.v].origin) \cap NodeObjects(cards) = {} ]_vars

\* combine_adaptive_cards has returned the card of three cards of which one
\* has its cursor on a container and one has an action.
C36_Witness ==
    /\ last.op = "combine_adaptive_cards" /\ Succeeded(last)
    /\ Len(last.arg[1]) = 3
    /\ \E i \in 1..3 : cards[i].h.pointer # Card
    /\ \E i \in 1..3 : cards[i].h.actions[Card] # << >>
    /\ Len(cards[last.ret.v].h.items[Card]) >= 3

====
